---- MODULE Spec2Model ----
(***************************************************************************)
(* Voter Bowl: contest entry and prize issuance.                           *)
(*                                                                         *)
(* The model follows server/vb/ops.py, server/vb/views.py,                 *)
(* server/vb/models.py and server/utils/agcod.py.  Every HTTP request or   *)
(* management command is a process (a slot of `req`) that walks through    *)
(* its database statements and vendor calls one step at a time, so that    *)
(* concurrent requests interleave exactly where the code touches shared    *)
(* state: the ContestEntry table, the Student and EmailValidationLink rows *)
(* and the gift card vendor.                                               *)
(*                                                                         *)
(* Model objects are loaded into a request (Django model instances) and    *)
(* written back whole by save(); a request therefore works on snapshots.   *)
(***************************************************************************)
EXTENDS Integers, FiniteSets, Sequences, TLC

\* ---------------------------------------------------------------------------
\* Bounds of the model
\* ---------------------------------------------------------------------------

\* Number of requests (HTTP requests and command runs) in one behaviour; any
\* number of them may be in flight at the same time.
MaxReqs == 2

\* The clock runs from 0 to MaxTime.
MaxTime == 2

\* The contest window [StartAt, EndAt): the contest is upcoming at 0, ongoing
\* at StartAt and past at MaxTime.
StartAt == MaxTime - 1

EndAt == MaxTime

\* Largest in_n of a contest.
MaxInN == 2

\* The prize amount of a monetary contest.
Prize == 5

\* Largest number of characters of an address typed into a form.
MaxAddrLen == 4

\* Largest number of characters of a variant of the same mailbox.
MaxVariantLen == 6

\* Number of first names a student may give.
MaxNames == 2
MaxContests == 2

\* ---------------------------------------------------------------------------
\* Values
\* ---------------------------------------------------------------------------

\* A null datetime / None.
Null == -1

Reqs == 1 .. MaxReqs

Times == 0 .. MaxTime

Schools == {"s1", "s2"}

Students == {"st1", "st2"}

\* Student.school (immutable foreign key).
SchoolOf(s) == IF s = "st1" THEN "s1" ELSE "s2"

\* The addresses a student may type in the form; all of them normalize to the
\* student's hash, so get_or_create_student finds the same Student row.
AddressesOf(s) == IF s = "st1" THEN {"a@s1", "a+t@s1"} ELSE {"b@s2"}

\* Student.email as first seen.
FirstEmail(s) == IF s = "st1" THEN "a@s1" ELSE "b@s2"

\* Primary keys of the Contest rows.
Contests == {1}

\* ContestKind
Kinds == {"giveaway", "dice_roll", "single_winner", "no_prize"}

\* settings.AGCOD_PARTNER_ID
PartnerId == "partner"

\* ContestEntry.creation_request_id default "" (no gift card issued).
NoRid == <<>>

NoEntry ==
  [id |-> 0, student |-> "none", contest |-> 0, roll |-> Null, amount_won |-> 0,
   creation_request_id |-> NoRid]

NoStudent ==
  [school |-> "none", email |-> "none", other_emails |-> {},
   email_validated_at |-> Null]

\* ---------------------------------------------------------------------------
\* Email addresses (utils/email.py, models.py School)
\* ---------------------------------------------------------------------------

\* The characters of an address: a lower-case letter and its upper case, a
\* second letter, the dot, the tag character, a space, the at-sign and a
\* non-ASCII letter.
Chars == {"a", "A", "b", ".", "+", " ", "@", "e-acute"}

\* str.isspace
IsSpace(c) == c = " "

\* The lower case of a character (str.lower, per character).
LowerChar(c) == IF c = "A" THEN "a" ELSE c

\* Is the character kept by encode("ascii", "ignore")?
IsAscii(c) == c # "e-acute"

\* str.lower
lower(s) == [i \in 1 .. Len(s) |-> LowerChar(s[i])]

\* str.strip: without the leading and trailing whitespace.
strip(s) ==
  IF \A i \in 1 .. Len(s) : IsSpace(s[i]) THEN <<>>
  ELSE LET lo == CHOOSE i \in 1 .. Len(s) :
                   ~IsSpace(s[i]) /\ \A j \in 1 .. (i - 1) : IsSpace(s[j])
           hi == CHOOSE i \in 1 .. Len(s) :
                   ~IsSpace(s[i]) /\ \A j \in (i + 1) .. Len(s) : IsSpace(s[j])
       IN SubSeq(s, lo, hi)

\* str.find for a character, 1-based; 0 when the character is absent.
find(s, c) ==
  IF \E i \in 1 .. Len(s) : s[i] = c
    THEN CHOOSE i \in 1 .. Len(s) : s[i] = c /\ \A j \in 1 .. (i - 1) : s[j] # c
    ELSE 0

\* Variant: only the first occurrence of the character is removed.
without_first_only(s, c) ==
  IF find(s, c) = 0 THEN s
  ELSE SubSeq(s, 1, find(s, c) - 1) \o SubSeq(s, find(s, c) + 1, Len(s))

\* s.replace(c, ""): every occurrence of the character removed.
without(s, c) == SelectSeq(s, LAMBDA x : x # c)

\* s.encode("ascii", "ignore").decode("ascii")
ascii(s) == SelectSeq(s, IsAscii)

\* str.endswith
endswith(s, t) == Len(s) >= Len(t) /\ SubSeq(s, Len(s) - Len(t) + 1, Len(s)) = t

\* subdomain_of(domain, parent)
subdomain_of(domain, parent) == domain = parent \/ endswith(domain, <<".">> \o parent)

\* The part of an address before its first at-sign / after it
\* (address.split("@", maxsplit=1)).
local_part(a) == SubSeq(a, 1, find(a, "@") - 1)

domain_part(a) == SubSeq(a, find(a, "@") + 1, Len(a))

\* normalize_email(address, tag, dots, domains, allow_subdomains) for an
\* address with an at-sign.  tag "" is None; domains <<>> is None, otherwise
\* the primary domain followed by the aliases.
normalize_email(address, tag, dots, domains, allow_subdomains) ==
  LET a == lower(strip(address))
      local0 == local_part(a)
      domain0 == domain_part(a)
      local1 == IF tag # "" /\ find(local0, tag) # 0
                  THEN SubSeq(local0, 1, find(local0, tag) - 1)
                  ELSE local0
      local2 == IF dots THEN without(local1, ".") ELSE local1
      domain1 == IF domains = <<>> THEN domain0
                 ELSE IF allow_subdomains
                         /\ \E i \in 1 .. Len(domains) : subdomain_of(domain0, domains[i])
                   THEN domains[1]
                 ELSE IF ~allow_subdomains
                         /\ \E i \in 2 .. Len(domains) : domain0 = domains[i]
                   THEN domains[1]
                 ELSE domain0
  IN ascii(local2) \o <<"@">> \o ascii(domain1)

\* School.normalize_email(address)
school_normalize_email(school, address) ==
  normalize_email(address, school.mail_tag, school.mail_dots, school.mail_domains,
                  school.allow_subdomains)

\* hashlib.sha256(...).hexdigest(): one digest per input.
sha256(x) == <<"sha256", x>>

\* School.hash_email(address)
hash_email(school, address) == sha256(school_normalize_email(school, address))

\* Variant: the domain as typed is compared with the primary domain.
is_valid_email_raw_domain(school, address) ==
  domain_part(lower(strip(address))) = school.mail_domains[1]

\* School.is_valid_email(address)
is_valid_email(school, address) ==
  domain_part(school_normalize_email(school, address)) = school.mail_domains[1]

\* School.validate_email(address): returns, or raises ValidationError.
school_validate_email(school, address) ==
  IF is_valid_email(school, address) THEN "ok" ELSE "ValidationError"

\* An address of ASCII characters with no whitespace in it.
CleanAddress(a) == \A i \in 1 .. Len(a) : IsAscii(a[i]) /\ ~IsSpace(a[i])

\* The addresses typed into a form: at most MaxAddrLen characters, an at-sign
\* among them.
Addresses ==
  {a \in UNION {[1 .. n -> Chars] : n \in 1 .. MaxAddrLen} : find(a, "@") # 0}

\* The email policies of a school: primary domain "a", with or without the
\* alias "b", every setting of the other three fields.
SchoolRows ==
  [mail_domains : {<< <<"a">> >>, << <<"a">>, <<"b">> >>}, mail_tag : {"+", ""},
   mail_dots : BOOLEAN, allow_subdomains : BOOLEAN]

\* The School row of a slug in the contest flows: its own primary domain,
\* the field defaults for the rest.
DefaultSchool(slug) ==
  [mail_domains |-> << <<IF slug = "s1" THEN "a" ELSE "b">> >>, mail_tag |-> "+",
   mail_dots |-> TRUE, allow_subdomains |-> TRUE]

\* The five settings AGCODClient.from_settings reads.
SettingNames ==
  {"AWS_ACCESS_KEY_ID", "AWS_SECRET_ACCESS_KEY", "AWS_REGION", "AGCOD_ENDPOINT_HOST",
   "AGCOD_PARTNER_ID"}

\* A deployment with every setting given.
CompleteSettings == [n \in SettingNames |-> "value"]

VARIABLES
  now,        \* wall clock (django_now)
  contests,   \* Contest rows: pk -> [school, kind, in_n, amount, start_at, end_at]
  students,   \* Student rows: student -> [school, email, other_emails, email_validated_at]
  entries,    \* ContestEntry rows
  links,      \* EmailValidationLink rows
  cards,      \* gift cards minted at the vendor, keyed by creationRequestId
  vendorLog,  \* CreateGiftCard requests received by the vendor
  mail,       \* gift card emails handed to the mail backend
  shown,      \* claim codes rendered by validate_email
  nextToken,  \* source of fresh random tokens (make_token)
  req,        \* the requests in flight
  serial,     \* TRUE when the server handles one request at a time
  schools,    \* School rows: slug -> [mail_domains, mail_tag, mail_dots, allow_subdomains]
  typed,      \* the address typed into the check form, character by character
  settings    \* Django settings read by AGCODClient.from_settings: name -> value

vars ==
  <<now, contests, students, entries, links, cards, vendorLog, mail, shown,
    nextToken, req, serial, schools, typed, settings>>

IdleReq ==
  [pc |-> "idle", op |-> "none", caller |-> "none", student |-> "none",
   contest |-> 0, when |-> Null, email |-> "none", token |-> 0, slug |-> "none",
   stu |-> NoStudent, ent |-> NoEntry, rid |-> NoRid, code |-> 0,
   result |-> "none", created |-> FALSE]

\* The request returns: its local objects are dropped, what stays in the slot
\* is the call (operation and arguments) and its outcome.
Done(rq, result) ==
  [rq EXCEPT !.pc = "done", !.result = result, !.caller = "none",
             !.email = "none", !.stu = NoStudent,
             !.when = IF rq.op = "enter" THEN rq.when ELSE Null]

\* ---------------------------------------------------------------------------
\* Contest (models.py)
\* ---------------------------------------------------------------------------

\* The contests an operator may have set up: any kind, with or without a
\* monetary amount; in_n > 1 for dice rolls only.
ContestConfigs ==
  {c \in [school : {"s1"}, kind : Kinds, in_n : 1 .. MaxInN, amount : {0, Prize},
          start_at : {StartAt}, end_at : {EndAt}] :
     c.kind # "dice_roll" => c.in_n = 1}

is_upcoming(c, when) == c.start_at > when

is_ongoing(c, when) == c.start_at <= when /\ when < c.end_at

\* Variant: a contest counts as past only at the instant it ends.
is_past_at_end_only(c, when) == c.end_at = when

is_past(c, when) == c.end_at <= when

\* ContestAdmin.status: the three predicates are called without `when`, so
\* each one that is reached reads the clock for itself: is_ongoing at t1,
\* is_upcoming at t2, is_past at t3.
status(c, t1, t2, t3) ==
  IF is_ongoing(c, t1) THEN "Ongoing"
  ELSE IF is_upcoming(c, t2) THEN "Upcoming"
  ELSE IF is_past(c, t3) THEN "Past"
  ELSE "ValueError"

\* ContestManager.ongoing(when) for a school's related manager.
ongoing(school, when) ==
  {c \in DOMAIN contests :
     contests[c].school = school /\ contests[c].start_at <= when
                                /\ contests[c].end_at > when}

\* ContestManager.upcoming(when) for a school's related manager.
upcoming(school, when) ==
  {c \in DOMAIN contests : contests[c].school = school /\ contests[c].start_at > when}

\* Variant: a contest that ends at `when` is not yet past.
past_after_end_only(school, when) ==
  {c \in DOMAIN contests : contests[c].school = school /\ contests[c].end_at < when}

\* ContestManager.past(when) for a school's related manager.
past(school, when) ==
  {c \in DOMAIN contests : contests[c].school = school /\ contests[c].end_at <= when}

\* ContestManager.most_recent_past(when): past(when).order_by("-end_at").first();
\* the database is free to return any of the rows with the greatest end_at.
\* The set of rows it may return (empty: None).
most_recent_past(school, when) ==
  {c \in past(school, when) :
     \A d \in past(school, when) : contests[d].end_at <= contests[c].end_at}

\* StatusListFilter.queryset over the admin's queryset of all contests.
StatusListFilter(value, when) ==
  IF value = "ongoing"
    THEN {c \in DOMAIN contests :
            contests[c].start_at <= when /\ contests[c].end_at > when}
  ELSE IF value = "upcoming"
    THEN {c \in DOMAIN contests : contests[c].start_at > when}
  ELSE IF value = "past"
    THEN {c \in DOMAIN contests : contests[c].end_at <= when}
  ELSE DOMAIN contests

\* ContestManager.current(when): the first ongoing contest, or None (0).
current_ignores_window(school, when) ==
  IF {c \in DOMAIN contests : contests[c].school = school} = {} THEN 0
  ELSE CHOOSE c \in {d \in DOMAIN contests : contests[d].school = school} :
         \A d \in {x \in DOMAIN contests : contests[x].school = school} : c <= d

current(school, when) ==
  IF ongoing(school, when) = {} THEN 0
  ELSE CHOOSE c \in ongoing(school, when) : \A d \in ongoing(school, when) : c <= d

\* Variant: a giveaway entry gets the losing draw.
roll_die_giveaway_loses(c) ==
  IF c.kind = "no_prize" \/ c.kind = "single_winner" THEN {<<1, 0>>}
  ELSE IF c.kind = "giveaway" THEN {<<1, 0>>}
  ELSE {<<r, IF r = 0 THEN c.amount ELSE 0>> : r \in 0 .. (c.in_n - 1)}

\* Variant: a single-winner contest rolls the die like a dice roll contest.
roll_die_single_winner_rolls(c) ==
  IF c.kind = "no_prize" THEN {<<1, 0>>}
  ELSE IF c.kind = "giveaway" THEN {<<0, c.amount>>}
  ELSE {<<r, IF r = 0 THEN c.amount ELSE 0>> : r \in 0 .. (c.in_n - 1)}

\* Variant: the die shows 1 .. in_n instead of 0 .. in_n - 1.
roll_die_one_based(c) ==
  IF c.kind = "no_prize" \/ c.kind = "single_winner" THEN {<<1, 0>>}
  ELSE IF c.kind = "giveaway" THEN {<<0, c.amount>>}
  ELSE {<<r, IF r = 0 THEN c.amount ELSE 0>> : r \in 1 .. c.in_n}

\* Contest.roll_die_and_get_winnings: the set of (roll, amount_won) it may return.
roll_die_and_get_winnings(c) ==
  IF c.kind = "no_prize" \/ c.kind = "single_winner" THEN {<<1, 0>>}
  ELSE IF c.kind = "giveaway" THEN {<<0, c.amount>>}
  ELSE {<<r, IF r = 0 THEN c.amount ELSE 0>> : r \in 0 .. (c.in_n - 1)}

\* Contest.mint_winner, as called by _create_contest_entry: whether the draw won.
mint_winner(roll) == roll = 0

\* ---------------------------------------------------------------------------
\* ContestEntry (models.py)
\* ---------------------------------------------------------------------------

\* Variant: every entry counts as a winner.
is_winner_always(e) == TRUE

is_winner(e) == e.roll = 0

\* Variant: the issued flag is never seen, every visit looks like a first visit.
has_issued_never(e) == FALSE

\* Variant: the issued flag is taken from the win, not from the request id.
has_issued_if_winner(e) == is_winner(e)

has_issued(e) == e.creation_request_id # NoRid

needs_to_issue(e) == is_winner(e) /\ ~has_issued(e)

\* ContestEntry.objects.get(student=, contest=) -> the rows found.
EntriesOf(s, c) == {e \in entries : e.student = s /\ e.contest = c}

EntryById(id) == CHOOSE e \in entries : e.id = id

\* UniqueConstraint(fields=["student", "contest"]): may a row for (s, c) be inserted?
unique_student_contest(s, c) == EntriesOf(s, c) = {}

\* ---------------------------------------------------------------------------
\* Vendor (AGCOD CreateGiftCard, idempotent on creationRequestId)
\* ---------------------------------------------------------------------------

\* AGCODClient.make_request_id(token): "{partner_id}-{token}".
make_request_id(token) == <<PartnerId, token>>

\* Variant: the request id passed in is dropped and a fresh one is drawn.
request_id_always_fresh(creation_request_id, token) == make_request_id(token)

\* create_gift_card: `creation_request_id or self.make_request_id(None)`,
\* where make_request_id(None) draws a fresh token.
request_id_for(creation_request_id, token) ==
  IF creation_request_id # NoRid THEN creation_request_id
  ELSE make_request_id(token)

CardsOf(rid) == {k \in cards : k.rid = rid}

\* May the vendor answer this CreateGiftCard with SUCCESS?  A known request id
\* is accepted only with the amount it was created with.
VendorAccepts(rid, amount) == \A k \in CardsOf(rid) : k.amount = amount

\* The vendor's card table after a processed CreateGiftCard: a known request
\* id returns the existing card, an unknown one funds a new card.
VendorCreateGiftCard(rid, amount, entry) ==
  IF CardsOf(rid) # {} THEN cards
  ELSE cards \cup {[rid |-> rid, amount |-> amount,
                    code |-> Cardinality(cards) + 1, entry |-> entry]}

\* gc_claim_code of the card with this request id in a card table.
ClaimCode(table, rid) == (CHOOSE k \in table : k.rid = rid).code

\* ---------------------------------------------------------------------------
\* Initial state
\* ---------------------------------------------------------------------------

\* ContestEntry.objects.create(student=, contest=, ...) for a draw
\* (roll, amount_won) of the contest: the row with primary key id.
EntryRow(id, s, c, contest, draw) ==
  [id |-> id, student |-> s, contest |-> c, roll |-> draw[1],
   amount_won |-> IF mint_winner(draw[1]) THEN contest.amount ELSE 0,
   creation_request_id |-> NoRid]

\* EmailValidationLink.objects.create(student=, email=, contest_entry=, token=).
LinkRow(token, s, email, entry_id) ==
  [token |-> token, student |-> s, email |-> email, contest_entry |-> entry_id,
   consumed_at |-> Null]

\* The databases a behaviour starts from: no entry yet, or the one left by
\* an earlier run of the enter_contest command for student st1 in contest 1
\* (its entry and, when the entry won, the validation link sent to st1), or
\* that one after st1 has also posted the form with a second address
\* (finish_check returns the winning entry and sends a second link).
Databases(contest) ==
  {[entries |-> {}, links |-> {}, nextToken |-> 1]}
  \cup
  {[entries |-> {EntryRow(1, "st1", 1, contest, draw)},
    links |-> IF mint_winner(draw[1])
                THEN {LinkRow(1, "st1", FirstEmail("st1"), 1)} ELSE {},
    nextToken |-> IF mint_winner(draw[1]) THEN 2 ELSE 1] :
     draw \in roll_die_and_get_winnings(contest)}
  \cup
  {[entries |-> {EntryRow(1, "st1", 1, contest, draw)},
    links |-> {LinkRow(1, "st1", FirstEmail("st1"), 1),
               LinkRow(2, "st1", "a+t@s1", 1)},
    nextToken |-> 3] :
     draw \in {d \in roll_die_and_get_winnings(contest) : mint_winner(d[1])}}

InitState ==
  /\ now = 0
  /\ contests \in [Contests -> ContestConfigs]
  /\ \E db \in Databases(contests[1]) :
       /\ entries = db.entries
       /\ links = db.links
       /\ nextToken = db.nextToken
  /\ students = [s \in Students |->
                   [school |-> SchoolOf(s), email |-> FirstEmail(s),
                    other_emails |-> {}, email_validated_at |-> Null]]
  /\ cards = {}
  /\ vendorLog = {}
  /\ mail = {}
  /\ shown = {}
  /\ req = [r \in Reqs |-> IdleReq]
  /\ schools = [slug \in Schools |-> DefaultSchool(slug)]
  /\ typed = <<>>
  /\ settings = CompleteSettings

\* Concurrent request handlers (threads or processes of the web server).
Init == InitState /\ serial = FALSE

\* One request at a time: every request returns before the next one starts.
InitSeq == InitState /\ serial = TRUE

Returned(r) == req[r].pc \in {"idle", "done"}

\* Request r has not arrived yet and may arrive now.  Requests are numbered
\* in their order of arrival.
Free(r) ==
  /\ req[r].pc = "idle"
  /\ \A q \in Reqs : q < r => req[q].pc # "idle"
  /\ serial => \A q \in Reqs : Returned(q)

\* django_now() advances.
Tick ==
  /\ now < MaxTime
  /\ now' = now + 1
  /\ UNCHANGED <<settings, schools, typed, serial, contests, students, entries, links, cards, vendorLog, mail,
                 shown, nextToken, req>>

\* ---------------------------------------------------------------------------
\* enter_contest and its callers (ops.py, views.py finish_check, enter_contest command)
\* ---------------------------------------------------------------------------

\* Variant: finish_check and the command send a link for every entry.
SendsLink_every_entry(caller, e, created) ==
  \/ caller = "finish_check"
  \/ caller = "command" /\ created

\* Does the caller send a validation link for the entry it got back?
\* finish_check: whenever the entry is a winner; the command: only when the
\* entry was newly entered and is a winner.
SendsLink(caller, e, created) ==
  \/ caller = "finish_check" /\ is_winner(e)
  \/ caller = "command" /\ created /\ is_winner(e)

\* send_validation_link_email: the link row it creates.
NewLink(s, email, e) == LinkRow(nextToken, s, email, e.id)

\* The request returns from enter_contest with entry e.
EnterReturn(r, rq, e, created) ==
  /\ req' = [req EXCEPT ![r] =
               Done([rq EXCEPT !.ent = e, !.created = created], "ok")]
  /\ IF SendsLink(rq.caller, e, created)
       THEN /\ links' = links \cup {NewLink(rq.student, rq.email, e)}
            /\ nextToken' = nextToken + 1
       ELSE UNCHANGED <<links, nextToken>>

\* Variant: the is_ongoing precondition is tested before the lookup of an
\* existing entry.
enter_decision_ongoing_first(s, c, w) ==
  IF students[s].school # contests[c].school THEN "not_eligible"
  ELSE IF ~is_ongoing(contests[c], w) THEN "inactive"
  ELSE IF Cardinality(EntriesOf(s, c)) > 1 THEN "multiple"
  ELSE IF EntriesOf(s, c) # {} THEN "found"
  ELSE "create"

\* Variant: only a past contest is refused, an upcoming one takes entries.
enter_decision_past_only(s, c, w) ==
  IF students[s].school # contests[c].school THEN "not_eligible"
  ELSE IF Cardinality(EntriesOf(s, c)) > 1 THEN "multiple"
  ELSE IF EntriesOf(s, c) # {} THEN "found"
  ELSE IF is_past(contests[c], w) THEN "inactive"
  ELSE "create"

\* Variant: the school of the student is not compared with the contest's.
enter_decision_any_school(s, c, w) ==
  IF Cardinality(EntriesOf(s, c)) > 1 THEN "multiple"
  ELSE IF EntriesOf(s, c) # {} THEN "found"
  ELSE IF ~is_ongoing(contests[c], w) THEN "inactive"
  ELSE "create"

\* The control flow of enter_contest(student, contest, when) before a new
\* entry is created: the school precondition, then the lookup of an existing
\* entry, then the is_ongoing precondition.
enter_decision(s, c, w) ==
  IF students[s].school # contests[c].school THEN "not_eligible"
  ELSE IF Cardinality(EntriesOf(s, c)) > 1 THEN "multiple"
  ELSE IF EntriesOf(s, c) # {} THEN "found"
  ELSE IF ~is_ongoing(contests[c], w) THEN "inactive"
  ELSE "create"

\* enter_contest(student, contest, when) up to the point where a new entry is
\* to be created.
EnterBegin(r, s, c, w, caller, email) ==
  LET rq == [IdleReq EXCEPT !.op = "enter", !.caller = caller, !.student = s,
                            !.contest = c, !.when = w, !.email = email]
      found == EntriesOf(s, c)
      decision == enter_decision(s, c, w)
  IN
  /\ UNCHANGED <<settings, schools, typed, serial, now, contests, students, entries, cards, vendorLog, mail, shown>>
  /\ IF decision = "not_eligible"
       THEN /\ req' = [req EXCEPT ![r] =
                         Done(rq, "precondition")]
            /\ UNCHANGED <<links, nextToken>>
     ELSE IF decision = "multiple"
       THEN /\ req' = [req EXCEPT ![r] =
                         Done(rq, "error")]
            /\ UNCHANGED <<links, nextToken>>
     ELSE IF decision = "found"
       THEN EnterReturn(r, rq, CHOOSE e \in found : TRUE, FALSE)
     ELSE IF decision = "inactive"
       THEN /\ req' = [req EXCEPT ![r] =
                         Done(rq, "precondition")]
            /\ UNCHANGED <<links, nextToken>>
     ELSE /\ req' = [req EXCEPT ![r] = [rq EXCEPT !.pc = "create"]]
          /\ UNCHANGED <<links, nextToken>>

\* finish_check: POST of the form by a student of the school `slug`.
FinishCheck(r, slug, s, email) ==
  /\ Free(r)
  /\ students[s].school = slug
  /\ email \in AddressesOf(s)
  /\ LET current_contest == current(slug, now) IN
     IF current_contest = 0
       THEN /\ req' = [req EXCEPT ![r] =
                         Done([IdleReq EXCEPT !.op = "enter", !.student = s,
                                              !.when = now], "no_contest")]
            /\ UNCHANGED <<settings, schools, typed, serial, now, contests, students, entries, links, cards,
                           vendorLog, mail, shown, nextToken>>
       ELSE EnterBegin(r, s, current_contest, now, "finish_check", email)

\* enter_contest management command: force-enter a student of the contest's school.
EnterContestCommand(r, c, s) ==
  /\ Free(r)
  /\ students[s].school = contests[c].school
  /\ EnterBegin(r, s, c, contests[c].start_at, "command", students[s].email)

\* enter_contest called with arbitrary arguments.
EnterContest(r, s, c, w) ==
  /\ Free(r)
  /\ EnterBegin(r, s, c, w, "direct", students[s].email)

\* The row _create_contest_entry inserts for a draw (roll, amount_won).
NewEntry(s, c, draw) == EntryRow(Cardinality(entries) + 1, s, c, contests[c], draw)

\* _create_contest_entry inside the transaction of enter_contest: draw, insert
\* and commit.  The insert fails on the unique constraint when another
\* request has committed an entry for the pair since the lookup.
CreateContestEntry(r) ==
  LET rq == req[r] IN
  /\ rq.pc = "create"
  /\ UNCHANGED <<settings, schools, typed, serial, now, contests, students, cards, vendorLog, mail, shown>>
  /\ \E draw \in roll_die_and_get_winnings(contests[rq.contest]) :
       IF unique_student_contest(rq.student, rq.contest)
         THEN LET e == NewEntry(rq.student, rq.contest, draw) IN
              /\ entries' = entries \cup {e}
              /\ EnterReturn(r, rq, e, TRUE)
         ELSE /\ req' = [req EXCEPT ![r] =
                           Done(rq, "integrity_error")]
              /\ UNCHANGED <<entries, links, nextToken>>

\* ---------------------------------------------------------------------------
\* validate_email and get_or_issue_prize (views.py, models.py, ops.py)
\* ---------------------------------------------------------------------------

LinkByToken(token) == CHOOSE l \in links : l.token = token

\* Variant: the slug of the URL is not compared with the school of the link.
ValidateEmail_slug_unchecked(r, token, slug) ==
  /\ Free(r)
  /\ \E l \in links :
       /\ l.token = token
       /\ req' = [req EXCEPT ![r] =
                    [IdleReq EXCEPT !.op = "validate", !.caller = "validate_email",
                                    !.student = l.student, !.email = l.email,
                                    !.token = token, !.slug = slug,
                                    !.stu = students[l.student], !.pc = "consume"]]
  /\ UNCHANGED <<settings, schools, typed, serial, now, contests, students, entries, links, cards, vendorLog, mail,
                 shown, nextToken>>

\* validate_email: look the link and the school up and cross-check them.
\* link.student is loaded here and stays cached on the link for the request.
ValidateEmail(r, token, slug) ==
  /\ Free(r)
  /\ \E l \in links :
       /\ l.token = token
       /\ LET rq == [IdleReq EXCEPT !.op = "validate", !.caller = "validate_email",
                                    !.student = l.student, !.email = l.email,
                                    !.token = token, !.slug = slug,
                                    !.stu = students[l.student]]
          IN
          IF students[l.student].school # slug
            THEN req' = [req EXCEPT ![r] =
                           Done(rq, "denied")]
            ELSE req' = [req EXCEPT ![r] = [rq EXCEPT !.pc = "consume"]]
  /\ UNCHANGED <<settings, schools, typed, serial, now, contests, students, entries, links, cards, vendorLog, mail,
                 shown, nextToken>>

\* EmailValidationLink.consume, first half: consumed_at = when; save().
Consume(r) ==
  LET rq == req[r]
      l == LinkByToken(rq.token)
  IN
  /\ rq.pc = "consume"
  /\ links' = (links \ {l}) \cup {[l EXCEPT !.consumed_at = now]}
  /\ req' = [req EXCEPT ![r] = [rq EXCEPT !.pc = "mark", !.when = now]]
  /\ UNCHANGED <<settings, schools, typed, serial, now, contests, students, entries, cards, vendorLog, mail, shown,
                 nextToken>>

\* Variant: the emails are updated but email_validated_at is left alone.
mark_validated_no_timestamp(stu, email, when) ==
  LET all_emails == stu.other_emails \cup {stu.email} \cup {email} IN
  [stu EXCEPT !.email = email, !.other_emails = all_emails \ {email}]

\* Variant: email_validated_at is set to `when` on every validation.
mark_validated_overwrites(stu, email, when) ==
  LET all_emails == stu.other_emails \cup {stu.email} \cup {email} IN
  [stu EXCEPT !.email = email,
              !.other_emails = all_emails \ {email},
              !.email_validated_at = when]

\* Variant: the old primary email is replaced, not moved to other_emails.
mark_validated_drops_primary(stu, email, when) ==
  [stu EXCEPT !.email = email,
              !.other_emails = stu.other_emails \ {email},
              !.email_validated_at =
                 IF stu.email_validated_at # Null THEN stu.email_validated_at
                 ELSE when]

\* Student.mark_validated(email, when) applied to a loaded Student instance.
mark_validated(stu, email, when) ==
  LET all_emails == stu.other_emails \cup {stu.email} \cup {email} IN
  [stu EXCEPT !.email = email,
              !.other_emails = all_emails \ {email},
              !.email_validated_at =
                 IF stu.email_validated_at # Null THEN stu.email_validated_at
                 ELSE when]

\* Second half of consume (mark_validated saves the student), then
\* validate_email loads link.contest_entry and get_or_issue_prize dispatches
\* on is_winner / has_issued.
MarkValidated(r) ==
  LET rq == req[r]
      l == LinkByToken(rq.token)
      stu == mark_validated(rq.stu, rq.email, rq.when)
      e == IF l.contest_entry = 0 THEN NoEntry ELSE EntryById(l.contest_entry)
  IN
  /\ rq.pc = "mark"
  /\ students' = [students EXCEPT ![rq.student] = stu]
  /\ req' = [req EXCEPT ![r] =
               IF e = NoEntry \/ ~is_winner(e)
                 THEN Done(rq, "redirect")
               ELSE IF has_issued(e)
                 THEN [rq EXCEPT !.pc = "check", !.stu = stu, !.ent = e]
               ELSE [rq EXCEPT !.pc = "mint", !.stu = stu, !.ent = e]]
  /\ UNCHANGED <<settings, schools, typed, serial, now, contests, entries, links, cards, vendorLog, mail, shown,
                 nextToken>>

\* How a vendor call can end: answered; failed before the vendor processed
\* it; processed by the vendor but the response lost or unusable.
VendorOutcomes == {"ok", "failed", "lost"}

\* _get_claim_code: check_gift_card(amount, creation_request_id), which is
\* create_gift_card with the given request id.
GetClaimCode(r) ==
  LET rq == req[r]
      e == rq.ent
      rid == request_id_for(e.creation_request_id, nextToken)
      table == VendorCreateGiftCard(rid, e.amount_won, e.id)
  IN
  /\ rq.pc = "check"
  /\ nextToken' = IF rid = make_request_id(nextToken) THEN nextToken + 1
                  ELSE nextToken
  /\ vendorLog' = vendorLog \cup
       {[entry |-> e.id, rid |-> rid, amount |-> e.amount_won, api |-> "check"]}
  /\ \E outcome \in VendorOutcomes :
       /\ outcome # "failed" => VendorAccepts(rid, e.amount_won)
       /\ cards' = IF outcome = "failed" THEN cards ELSE table
       /\ IF outcome = "ok"
            THEN /\ req' = [req EXCEPT ![r] =
                              Done([rq EXCEPT !.code = ClaimCode(table, rid)], "ok")]
                 /\ shown' = shown \cup {<<e.id, ClaimCode(table, rid)>>}
            ELSE /\ req' = [req EXCEPT ![r] =
                              Done([rq EXCEPT !.ent = NoEntry], "error")]
                 /\ UNCHANGED shown
  /\ UNCHANGED <<settings, schools, typed, serial, now, contests, students, entries, links, mail>>

\* _create_gift_card up to the vendor's answer: create_gift_card(amount)
\* without a request id, so make_request_id draws a fresh token.
CreateGiftCard(r) ==
  LET rq == req[r]
      e == rq.ent
      rid == request_id_for(NoRid, nextToken)
      table == VendorCreateGiftCard(rid, e.amount_won, e.id)
  IN
  /\ rq.pc = "mint"
  /\ nextToken' = nextToken + 1
  /\ vendorLog' = vendorLog \cup
       {[entry |-> e.id, rid |-> rid, amount |-> e.amount_won, api |-> "create"]}
  /\ \E outcome \in VendorOutcomes :
       /\ outcome # "failed" => VendorAccepts(rid, e.amount_won)
       /\ cards' = IF outcome = "failed" THEN cards ELSE table
       /\ IF outcome = "ok"
            THEN req' = [req EXCEPT ![r] =
                           [rq EXCEPT !.pc = "save", !.rid = rid,
                                      !.code = ClaimCode(table, rid)]]
            ELSE req' = [req EXCEPT ![r] =
                           Done([rq EXCEPT !.ent = NoEntry], "error")]
  /\ UNCHANGED <<settings, schools, typed, serial, now, contests, students, entries, links, mail, shown>>

\* _create_gift_card, the write: creation_request_id = response id; save().
\* save() writes every field of the loaded instance over the row.
SaveCreationRequestId(r) ==
  LET rq == req[r]
      e == [rq.ent EXCEPT !.creation_request_id = rq.rid]
  IN
  /\ rq.pc = "save"
  /\ entries' = {x \in entries : x.id # e.id} \cup {e}
  /\ req' = [req EXCEPT ![r] = [rq EXCEPT !.pc = "email", !.ent = e]]
  /\ UNCHANGED <<settings, schools, typed, serial, now, contests, students, links, cards, vendorLog, mail, shown,
                 nextToken>>

\* Variant: a failed dispatch raises, so validate_email renders the error
\* state without the claim code.
SendGiftCardEmail_failure_raises(r) ==
  LET rq == req[r] IN
  /\ rq.pc = "email"
  /\ \E success \in BOOLEAN :
       /\ mail' = mail \cup {[entry |-> rq.ent.id, code |-> rq.code,
                              to |-> students[rq.student].email, sent |-> success]}
       /\ IF success
            THEN /\ shown' = shown \cup {<<rq.ent.id, rq.code>>}
                 /\ req' = [req EXCEPT ![r] = Done(rq, "ok")]
            ELSE /\ shown' = shown
                 /\ req' = [req EXCEPT ![r] =
                              Done([rq EXCEPT !.ent = NoEntry, !.code = 0], "error")]
  /\ UNCHANGED <<settings, schools, typed, serial, now, contests, students, entries, links, cards, vendorLog,
                 nextToken>>

\* send_gift_card_email, then validate_email renders the claim code.  A
\* failed dispatch is logged and otherwise ignored.
SendGiftCardEmail(r) ==
  LET rq == req[r] IN
  /\ rq.pc = "email"
  /\ \E success \in BOOLEAN :
       mail' = mail \cup {[entry |-> rq.ent.id, code |-> rq.code,
                           to |-> students[rq.student].email, sent |-> success]}
  /\ shown' = shown \cup {<<rq.ent.id, rq.code>>}
  /\ req' = [req EXCEPT ![r] = Done(rq, "ok")]
  /\ UNCHANGED <<settings, schools, typed, serial, now, contests, students, entries, links, cards, vendorLog,
                 nextToken>>

\* get_or_issue_prize(contest_entry) called on a stored entry by any caller:
\* a non-winner returns (entry, None) at once, a winner goes on to
\* _get_claim_code or _create_gift_card.
GetOrIssuePrize(r, id) ==
  /\ Free(r)
  /\ \E e \in entries :
       /\ e.id = id
       /\ LET rq == [IdleReq EXCEPT !.op = "prize", !.caller = "direct",
                                    !.student = e.student, !.ent = e]
          IN
          req' = [req EXCEPT ![r] =
                    IF ~is_winner(e) THEN Done(rq, "none")
                    ELSE IF has_issued(e) THEN [rq EXCEPT !.pc = "check"]
                    ELSE [rq EXCEPT !.pc = "mint"]]
  /\ UNCHANGED <<settings, schools, typed, serial, now, contests, students, entries, links, cards, vendorLog, mail,
                 shown, nextToken>>

\* ---------------------------------------------------------------------------
\* Contest status and draw on their own (models.py, admin.py)
\* ---------------------------------------------------------------------------

\* Any contest row the Contest model can hold with a window start_at < end_at.
AnyContest ==
  {c \in [school : {"s1"}, kind : Kinds, in_n : 1 .. MaxInN, amount : {0, Prize},
          start_at : Times, end_at : Times] : c.start_at < c.end_at}

InitContest ==
  /\ now = 0
  /\ contests \in [Contests -> AnyContest]
  /\ entries = {}
  /\ links = {}
  /\ nextToken = 1
  /\ students = [s \in Students |->
                   [school |-> SchoolOf(s), email |-> FirstEmail(s),
                    other_emails |-> {}, email_validated_at |-> Null]]
  /\ cards = {}
  /\ vendorLog = {}
  /\ mail = {}
  /\ shown = {}
  /\ req = [r \in Reqs |-> IdleReq]
  /\ serial = FALSE
  /\ schools = [slug \in Schools |-> DefaultSchool(slug)]
  /\ typed = <<>>
  /\ settings = CompleteSettings

\* The admin page of a contest renders its status: the clock is read by each
\* predicate that is called and may have advanced between two reads.
AdminStatus(r, c) ==
  /\ Free(r)
  /\ \E t2, t3 \in Times :
       /\ now <= t2 /\ t2 <= t3
       /\ now' = t3
       /\ req' = [req EXCEPT ![r] =
                    [IdleReq EXCEPT !.pc = "done", !.op = "status", !.contest = c,
                                    !.when = now,
                                    !.result = status(contests[c], now, t2, t3)]]
  /\ UNCHANGED <<settings, schools, typed, serial, contests, students, entries, links, cards, vendorLog, mail,
                 shown, nextToken>>

\* One call of contest.roll_die_and_get_winnings(); the draw is kept in the
\* roll and amount_won of the request's entry.
RollDie(r, c) ==
  /\ Free(r)
  /\ \E draw \in roll_die_and_get_winnings(contests[c]) :
       req' = [req EXCEPT ![r] =
                 [IdleReq EXCEPT !.pc = "done", !.op = "roll", !.contest = c,
                                 !.ent = [NoEntry EXCEPT !.roll = draw[1],
                                                         !.amount_won = draw[2]],
                                 !.result = "ok"]]
  /\ UNCHANGED <<settings, schools, typed, serial, now, contests, students, entries, links, cards, vendorLog, mail,
                 shown, nextToken>>

\* ---------------------------------------------------------------------------
\* Specifications
\* ---------------------------------------------------------------------------

Next ==
  \/ Tick
  \/ \E r \in Reqs, s \in Students :
       \E email \in AddressesOf(s) : FinishCheck(r, SchoolOf(s), s, email)
  \/ \E r \in Reqs, c \in Contests, s \in Students : EnterContestCommand(r, c, s)
  \/ \E r \in Reqs, s \in Students, c \in Contests, w \in Times : EnterContest(r, s, c, w)
  \/ \E r \in Reqs : CreateContestEntry(r)
  \/ \E r \in Reqs, l \in links, slug \in Schools : ValidateEmail(r, l.token, slug)
  \/ \E r \in Reqs : Consume(r)
  \/ \E r \in Reqs : MarkValidated(r)
  \/ \E r \in Reqs : GetClaimCode(r)
  \/ \E r \in Reqs : CreateGiftCard(r)
  \/ \E r \in Reqs : SaveCreationRequestId(r)
  \/ \E r \in Reqs : SendGiftCardEmail(r)

\* Requests arrive and run concurrently.
Spec == Init /\ [][Next]_vars

\* Requests run one after the other.
SpecSeq == InitSeq /\ [][Next]_vars

\* The handlers together with direct calls of get_or_issue_prize.
NextOps ==
  \/ Next
  \/ \E r \in Reqs, e \in entries : GetOrIssuePrize(r, e.id)

SpecOps == Init /\ [][NextOps]_vars

\* A contest row, the clock, its status and its draws.
NextContest ==
  \/ Tick
  \/ \E r \in Reqs, c \in Contests : AdminStatus(r, c)
  \/ \E r \in Reqs, c \in Contests : RollDie(r, c)

SpecContest == InitContest /\ [][NextContest]_vars

\* ---------------------------------------------------------------------------
\* The email policy of one school applied to one typed address
\* ---------------------------------------------------------------------------

\* The school whose policy is applied.
TheSchool == "s1"

\* Any policy for the school, any address with an at-sign typed in.
InitEmail ==
  /\ now = 0
  /\ contests = [c \in Contests |->
                   [school |-> TheSchool, kind |-> "giveaway", in_n |-> 1,
                    amount |-> Prize, start_at |-> StartAt, end_at |-> EndAt]]
  /\ entries = {}
  /\ links = {}
  /\ nextToken = 1
  /\ students = [s \in Students |->
                   [school |-> SchoolOf(s), email |-> FirstEmail(s),
                    other_emails |-> {}, email_validated_at |-> Null]]
  /\ cards = {}
  /\ vendorLog = {}
  /\ mail = {}
  /\ shown = {}
  /\ req = [r \in Reqs |-> IdleReq]
  /\ serial = TRUE
  /\ \E row \in SchoolRows :
       schools = [slug \in Schools |->
                    IF slug = TheSchool THEN row ELSE DefaultSchool(slug)]
  /\ typed \in Addresses
  /\ settings = CompleteSettings

\* A call that touches no row: the slot keeps the call and its outcome.
PureCall(r, op, address, result) ==
  /\ req' = [req EXCEPT ![r] =
               [IdleReq EXCEPT !.pc = "done", !.op = op, !.slug = TheSchool,
                               !.email = address, !.result = result]]
  /\ UNCHANGED <<settings, schools, typed, serial, now, contests, students, entries, links, cards, vendorLog, mail,
                 shown, nextToken>>

\* The functions are called from one session, one call after the other; its
\* slot keeps the last call.
Session == 1

\* school.normalize_email(address) on the typed address.
SchoolNormalizeEmail ==
  /\ PureCall(Session, "School.normalize_email", typed,
              school_normalize_email(schools[TheSchool], typed))

\* normalize_email(address, tag, dots) on the typed address, no domains given.
NormalizeEmail ==
  /\ PureCall(Session, "normalize_email", typed,
              normalize_email(typed, schools[TheSchool].mail_tag,
                              schools[TheSchool].mail_dots, <<>>,
                              schools[TheSchool].allow_subdomains))

\* The caller normalizes again what a normalization returned, under the same
\* policy.
NormalizeAgain ==
  /\ req[Session].pc = "done"
  /\ req[Session].op \in {"School.normalize_email", "normalize_email"}
  /\ PureCall(Session, req[Session].op, req[Session].result,
              IF req[Session].op = "School.normalize_email"
                THEN school_normalize_email(schools[TheSchool], req[Session].result)
                ELSE normalize_email(req[Session].result, schools[TheSchool].mail_tag,
                                     schools[TheSchool].mail_dots, <<>>,
                                     schools[TheSchool].allow_subdomains))

\* school.is_valid_email(address) on the typed address.
IsValidEmail ==
  /\ PureCall(Session, "is_valid_email", typed, is_valid_email(schools[TheSchool], typed))

\* school.validate_email(address) on the typed address.
SchoolValidateEmail ==
  /\ PureCall(Session, "validate_email", typed,
              school_validate_email(schools[TheSchool], typed))

NextEmail ==
  \/ SchoolNormalizeEmail
  \/ NormalizeEmail
  \/ NormalizeAgain
  \/ IsValidEmail
  \/ SchoolValidateEmail

SpecEmail == InitEmail /\ [][NextEmail]_vars

\* ---------------------------------------------------------------------------
\* One mailbox written in different ways (vb/tests.py test_hash_email)
\* ---------------------------------------------------------------------------

\* The mailbox in its plain form, at the primary domain.
BaseAddress == <<"a", "b", "@", "a">>

\* The school of the test: a primary domain and an alias, tag "+", dots
\* removed; the plain address is typed in.
InitDedup ==
  /\ now = 0
  /\ contests = [c \in Contests |->
                   [school |-> TheSchool, kind |-> "giveaway", in_n |-> 1,
                    amount |-> Prize, start_at |-> StartAt, end_at |-> EndAt]]
  /\ entries = {}
  /\ links = {}
  /\ nextToken = 1
  /\ students = [s \in Students |->
                   [school |-> SchoolOf(s), email |-> FirstEmail(s),
                    other_emails |-> {}, email_validated_at |-> Null]]
  /\ cards = {}
  /\ vendorLog = {}
  /\ mail = {}
  /\ shown = {}
  /\ req = [r \in Reqs |-> IdleReq]
  /\ serial = TRUE
  /\ \E sub \in BOOLEAN :
       schools = [slug \in Schools |->
                    IF slug = TheSchool
                      THEN [mail_domains |-> << <<"a">>, <<"b">> >>, mail_tag |-> "+",
                            mail_dots |-> TRUE, allow_subdomains |-> sub]
                      ELSE DefaultSchool(slug)]
  /\ typed = BaseAddress
  /\ settings = CompleteSettings

\* The user types the address another way; nothing else changes.
Retype(address) ==
  /\ Len(address) <= MaxVariantLen
  /\ typed' = address
  /\ UNCHANGED <<settings, schools, serial, now, contests, students, entries, links, cards, vendorLog, mail,
                 shown, nextToken, req>>

\* A letter in the other case.
ChangeCase(i) ==
  /\ i \in 1 .. Len(typed)
  /\ typed[i] \in {"a", "A"}
  /\ Retype([typed EXCEPT ![i] = IF typed[i] = "a" THEN "A" ELSE "a"])

\* Whitespace before or after the address.
Pad(before) ==
  Retype(IF before THEN <<" ">> \o typed ELSE typed \o <<" ">>)

\* A tag suffix at the end of the local part.
AddTag(suffix) ==
  /\ CleanAddress(typed)
  /\ Retype(local_part(typed) \o <<"+">> \o suffix \o <<"@">> \o domain_part(typed))

\* A dot somewhere in the local part.
AddDot(i) ==
  /\ CleanAddress(typed)
  /\ i \in 1 .. find(typed, "@")
  /\ Retype(SubSeq(typed, 1, i - 1) \o <<".">> \o SubSeq(typed, i, Len(typed)))

\* The alias domain in place of the primary domain.
UseAlias ==
  /\ CleanAddress(typed)
  /\ lower(domain_part(typed)) = schools[TheSchool].mail_domains[1]
  /\ Retype(local_part(typed) \o <<"@">> \o schools[TheSchool].mail_domains[2])

\* school.hash_email(address) on the typed address.
HashEmail(r) ==
  /\ Free(r)
  /\ PureCall(r, "hash_email", typed, hash_email(schools[TheSchool], typed))

NextDedup ==
  \/ \E i \in 1 .. MaxVariantLen : ChangeCase(i)
  \/ \E before \in BOOLEAN : Pad(before)
  \/ \E suffix \in {<<>>, <<"b">>} : AddTag(suffix)
  \/ \E i \in 1 .. MaxVariantLen : AddDot(i)
  \/ UseAlias
  \/ \E r \in Reqs : HashEmail(r)

SpecDedup == InitDedup /\ [][NextDedup]_vars

\* ---------------------------------------------------------------------------
\* The students table (ops.py get_or_create_student, called by finish_check)
\* ---------------------------------------------------------------------------

\* The addresses students post: a local part in either case at one of three
\* domains.
StudentAddresses ==
  {<<l, "@">> \o d : l \in {"a", "A", "b"}, d \in {<<"a">>, <<"b">>, <<"b", "a">>}}

\* The first names students post.
FirstNames == 1 .. MaxNames

\* Two schools with separate mail domains: the first has an alias, the second
\* a primary domain of its own.
StudentSchools ==
  [slug \in Schools |->
     IF slug = "s1"
       THEN [mail_domains |-> << <<"a">>, <<"b">> >>, mail_tag |-> "+",
             mail_dots |-> TRUE, allow_subdomains |-> TRUE]
       ELSE [mail_domains |-> << <<"b", "a">> >>, mail_tag |-> "+",
             mail_dots |-> TRUE, allow_subdomains |-> TRUE]]

\* An empty students table; requests may overlap.
InitStudents ==
  /\ now = 0
  /\ contests = [c \in Contests |->
                   [school |-> TheSchool, kind |-> "giveaway", in_n |-> 1,
                    amount |-> Prize, start_at |-> StartAt, end_at |-> EndAt]]
  /\ entries = {}
  /\ links = {}
  /\ nextToken = 1
  /\ students = <<>>
  /\ cards = {}
  /\ vendorLog = {}
  /\ mail = {}
  /\ shown = {}
  /\ req = [r \in Reqs |-> IdleReq]
  /\ serial \in BOOLEAN
  /\ schools = StudentSchools
  /\ typed = <<>>
  /\ settings = CompleteSettings

\* Variant: the row is looked up by school and email.
FindStudent_by_email(school, hash, email) ==
  {pk \in DOMAIN students :
     students[pk].school = school /\ students[pk].email = email}

\* Student.objects.get(hash=hash, school=school): the rows that match.
FindStudent(school, hash, email) ==
  {pk \in DOMAIN students :
     students[pk].school = school /\ students[pk].hash = hash}

\* Would the insert break a unique column (Student.hash, Student.email)?
StudentIntegrityError(row) ==
  \E pk \in DOMAIN students :
    students[pk].hash = row.hash \/ students[pk].email = row.email

\* finish_check with a valid form calls get_or_create_student(school, hash,
\* email, first_name, last_name); get_or_create starts with a get.
GetOrCreateStudent(r, slug, address, first_name) ==
  /\ Free(r)
  /\ school_validate_email(schools[slug], address) = "ok"
  /\ typed' = address
  /\ LET row == [school |-> slug, hash |-> hash_email(schools[slug], address),
                 email |-> address, first_name |-> first_name,
                 other_emails |-> {}, email_validated_at |-> Null]
         found == FindStudent(slug, row.hash, address)
         rq == [IdleReq EXCEPT !.op = "get_or_create_student", !.slug = slug,
                               !.email = address, !.stu = row]
     IN req' = [req EXCEPT ![r] =
                  IF found # {}
                    THEN [rq EXCEPT !.pc = "done",
                                    !.result = <<"Student", CHOOSE pk \in found : TRUE>>]
                    ELSE [rq EXCEPT !.pc = "create"]]
  /\ UNCHANGED <<settings, schools, serial, now, contests, students, entries, links, cards, vendorLog, mail,
                 shown, nextToken>>

\* The get found nothing: insert the row with the defaults; a unique column
\* may refuse it.
CreateStudent(r) ==
  /\ req[r].pc = "create"
  /\ IF StudentIntegrityError(req[r].stu)
       THEN /\ req' = [req EXCEPT ![r].pc = "get_again"]
            /\ UNCHANGED students
       ELSE /\ students' = Append(students, req[r].stu)
            /\ req' = [req EXCEPT ![r] =
                         [@ EXCEPT !.pc = "done",
                                   !.result = <<"Student", Len(students) + 1>>,
                                   !.created = TRUE]]
  /\ UNCHANGED <<settings, schools, typed, serial, now, contests, entries, links, cards, vendorLog, mail,
                 shown, nextToken>>

\* After an IntegrityError get_or_create gets once more, and raises the
\* IntegrityError when there is still no such row.  The call returns the
\* Student (its pk) or raises.
GetStudentAgain(r) ==
  /\ req[r].pc = "get_again"
  /\ LET found == FindStudent(req[r].slug, req[r].stu.hash, req[r].email)
     IN req' = [req EXCEPT ![r] =
                  [@ EXCEPT !.pc = "done",
                            !.result = IF found # {}
                                         THEN <<"Student", CHOOSE pk \in found : TRUE>>
                                         ELSE <<"IntegrityError">>]]
  /\ UNCHANGED <<settings, schools, typed, serial, now, contests, students, entries, links, cards, vendorLog,
                 mail, shown, nextToken>>

NextStudents ==
  \/ \E r \in Reqs, slug \in Schools, address \in StudentAddresses, n \in FirstNames :
       GetOrCreateStudent(r, slug, address, n)
  \/ \E r \in Reqs : CreateStudent(r)
  \/ \E r \in Reqs : GetStudentAgain(r)

SpecStudents == InitStudents /\ [][NextStudents]_vars

\* ---------------------------------------------------------------------------
\* The vendor adapter on the wire (utils/agcod.py) and its caller in ops.py
\* ---------------------------------------------------------------------------

\* settings.AGCOD_ENDPOINT_HOST
EndpointHost == "host"

\* What can go wrong with one POST: the connection fails, the vendor answers
\* with an error status, the body is not JSON, the JSON is not an object, the
\* object lacks a field of CreateGiftCardResponse.
TransportFaults == {"ConnectError", "HTTPStatusError"}

MalformedFaults == {"JSONDecodeError", "not_a_dict", "missing_field"}

Faults == {"none"} \cup TransportFaults \cup MalformedFaults

\* The amounts asked for.
Amounts == {Prize, 2 * Prize}

\* What a call comes to: the exception raised ("none" when it returns) and
\* the value returned.
NoValue == [creation_request_id |-> NoRid, gc_claim_code |-> 0, amount |-> 0,
            status |-> "none"]

Raises(exception) == [raised |-> exception, value |-> NoValue]

Returns(value) == [raised |-> "none", value |-> value]

\* Variant: the body carries no amount of its own.
CreateGiftCardData_zero_amount(creation_request_id, amount) ==
  [creationRequestId |-> creation_request_id, partnerId |-> PartnerId,
   value |-> [currencyCode |-> "USD", amount |-> 0]]

\* The JSON body of create_gift_card.
CreateGiftCardData(creation_request_id, amount) ==
  [creationRequestId |-> creation_request_id, partnerId |-> PartnerId,
   value |-> [currencyCode |-> "USD", amount |-> amount]]

\* post_json_rpc("CreateGiftCard", data): the POST handed to the invoker.
PostJsonRpc(api, data, fault) ==
  [n |-> Cardinality(vendorLog) + 1, method |-> "POST",
   url |-> <<"https", EndpointHost, api>>, body |-> data, fault |-> fault]

\* The vendor's JSON answer to a processed CreateGiftCard, in camelCase.
ResponseData(table, rid, fault) ==
  LET k == CHOOSE k \in table : k.rid = rid
      full == [creationRequestId |-> k.rid, gcClaimCode |-> k.code,
               cardInfo |-> [value |-> [amount |-> k.amount, currencyCode |-> "USD"]],
               status |-> "SUCCESS"]
  IN IF fault = "missing_field"
       THEN [f \in DOMAIN full \ {"gcClaimCode"} |-> full[f]]
       ELSE full

\* CreateGiftCardResponse.model_validate(response_data)
model_validate(data) ==
  IF {"creationRequestId", "gcClaimCode", "cardInfo", "status"} \subseteq DOMAIN data
    THEN Returns([creation_request_id |-> data.creationRequestId,
                  gc_claim_code |-> data.gcClaimCode,
                  amount |-> data.cardInfo.value.amount, status |-> data.status])
    ELSE Raises("pydantic.ValidationError")

\* _httpx_invoker followed by model_validate: what create_gift_card comes to
\* for one POST.
ClientOutcome(table, rid, fault) ==
  IF fault = "ConnectError" THEN Raises("httpx.ConnectError")
  ELSE IF fault = "HTTPStatusError" THEN Raises("httpx.HTTPStatusError")
  ELSE IF fault = "JSONDecodeError" THEN Raises("json.JSONDecodeError")
  ELSE IF fault = "not_a_dict" THEN Raises("ValueError: Unexpected AGCOD response type")
  ELSE model_validate(ResponseData(table, rid, fault))

\* Variant: the client is built from whatever the settings hold.
from_settings_unchecked(config) == Returns(NoValue)

\* AGCODClient.from_settings: ValueError when one of the five settings is
\* None, the client otherwise.
from_settings(config) ==
  IF \E n \in SettingNames : config[n] = "None"
    THEN Raises("ValueError: Missing AGCOD settings")
    ELSE Returns(NoValue)

\* _create_gift_card / _get_claim_code: `except Exception` around the client
\* call, re-raised as ValueError("AGCOD failed ...").
OpsOutcome(outcome) ==
  IF outcome.raised # "none" THEN Raises("ValueError: AGCOD failed") ELSE outcome

\* One winning entry without a gift card; nothing sent to the vendor yet.
InitVendor ==
  /\ now = 0
  /\ contests = [c \in Contests |->
                   [school |-> TheSchool, kind |-> "giveaway", in_n |-> 1,
                    amount |-> Prize, start_at |-> StartAt, end_at |-> EndAt]]
  /\ entries = {EntryRow(1, "st1", 1, contests[1], <<0>>)}
  /\ links = {}
  /\ nextToken = 1
  /\ students = [s \in Students |->
                   [school |-> SchoolOf(s), email |-> FirstEmail(s),
                    other_emails |-> {}, email_validated_at |-> Null]]
  /\ cards = {}
  /\ vendorLog = {}
  /\ mail = {}
  /\ shown = {}
  /\ req = [r \in Reqs |-> IdleReq]
  /\ serial = TRUE
  /\ schools = [slug \in Schools |-> DefaultSchool(slug)]
  /\ typed = <<>>
  /\ settings = CompleteSettings

\* The wire part of create_gift_card(amount) without a request id: a fresh
\* request id, one POST, the vendor funds the card unless the POST failed.
SendCreateGiftCard(rid, amount, entry, fault) ==
  /\ nextToken' = nextToken + 1
  /\ vendorLog' = vendorLog \cup
       {PostJsonRpc("CreateGiftCard", CreateGiftCardData(rid, amount), fault)}
  /\ cards' = IF fault \in TransportFaults THEN cards
              ELSE VendorCreateGiftCard(rid, amount, entry)

\* client.create_gift_card(amount), called on its own.
ClientCreateGiftCard(r, amount, fault) ==
  LET rid == request_id_for(NoRid, nextToken)
      table == VendorCreateGiftCard(rid, amount, 0)
  IN
  /\ Free(r)
  /\ SendCreateGiftCard(rid, amount, 0, fault)
  /\ req' = [req EXCEPT ![r] =
               [IdleReq EXCEPT !.pc = "done", !.op = "create_gift_card",
                               !.ent = [NoEntry EXCEPT !.amount_won = amount],
                               !.rid = rid,
                               !.result = ClientOutcome(table, rid, fault)]]
  /\ UNCHANGED <<settings, schools, typed, serial, now, contests, students, entries, links, mail, shown>>

\* _create_gift_card(contest_entry), as get_or_issue_prize calls it for a
\* winner without a gift card: the client call, then the request id of the
\* response saved on the entry.
OpsCreateGiftCard(r, e, fault) ==
  LET rid == request_id_for(NoRid, nextToken)
      table == VendorCreateGiftCard(rid, e.amount_won, e.id)
      outcome == OpsOutcome(ClientOutcome(table, rid, fault))
      saved == [e EXCEPT !.creation_request_id = outcome.value.creation_request_id]
  IN
  /\ Free(r)
  /\ e.roll = 0
  /\ e.creation_request_id = NoRid
  /\ IF from_settings(settings).raised # "none"
       THEN /\ req' = [req EXCEPT ![r] =
                         [IdleReq EXCEPT !.pc = "done", !.op = "_create_gift_card",
                                         !.ent = e, !.result = from_settings(settings)]]
            /\ UNCHANGED <<nextToken, vendorLog, cards, entries>>
       ELSE /\ SendCreateGiftCard(rid, e.amount_won, e.id, fault)
            /\ entries' = IF outcome.raised = "none"
                            THEN {x \in entries : x.id # e.id} \cup {saved}
                            ELSE entries
            /\ req' = [req EXCEPT ![r] =
                         [IdleReq EXCEPT !.pc = "done", !.op = "_create_gift_card",
                                         !.ent = IF outcome.raised = "none" THEN saved ELSE e,
                                         !.rid = rid, !.result = outcome]]
  /\ UNCHANGED <<settings, schools, typed, serial, now, contests, students, links, mail, shown>>

NextVendor ==
  \/ \E r \in Reqs, amount \in Amounts, fault \in Faults :
       ClientCreateGiftCard(r, amount, fault)
  \/ \E r \in Reqs, e \in entries, fault \in Faults : OpsCreateGiftCard(r, e, fault)

SpecVendor == InitVendor /\ [][NextVendor]_vars

\* ---------------------------------------------------------------------------
\* Deployments with settings missing (AGCODClient.from_settings)
\* ---------------------------------------------------------------------------

\* A setting is None, the empty string or a value.
SettingValues == {"None", "", "value"}

\* Any deployment; one winning entry without a gift card.
InitSettings ==
  /\ now = 0
  /\ contests = [c \in Contests |->
                   [school |-> TheSchool, kind |-> "giveaway", in_n |-> 1,
                    amount |-> Prize, start_at |-> StartAt, end_at |-> EndAt]]
  /\ entries = {EntryRow(1, "st1", 1, contests[1], <<0>>)}
  /\ links = {}
  /\ nextToken = 1
  /\ students = [s \in Students |->
                   [school |-> SchoolOf(s), email |-> FirstEmail(s),
                    other_emails |-> {}, email_validated_at |-> Null]]
  /\ cards = {}
  /\ vendorLog = {}
  /\ mail = {}
  /\ shown = {}
  /\ req = [r \in Reqs |-> IdleReq]
  /\ serial = TRUE
  /\ schools = [slug \in Schools |-> DefaultSchool(slug)]
  /\ typed = <<>>
  /\ settings \in [SettingNames -> SettingValues]

\* The create_gift_card management command: from_settings(), then
\* client.create_gift_card(amount) with its exceptions written to stderr.
CreateGiftCardCommand(r, amount, fault) ==
  LET rid == request_id_for(NoRid, nextToken)
      table == VendorCreateGiftCard(rid, amount, 0)
  IN
  /\ Free(r)
  /\ IF from_settings(settings).raised # "none"
       THEN /\ req' = [req EXCEPT ![r] =
                         [IdleReq EXCEPT !.pc = "done", !.op = "create_gift_card command",
                                         !.ent = [NoEntry EXCEPT !.amount_won = amount],
                                         !.result = from_settings(settings)]]
            /\ UNCHANGED <<nextToken, vendorLog, cards>>
       ELSE /\ SendCreateGiftCard(rid, amount, 0, fault)
            /\ req' = [req EXCEPT ![r] =
                         [IdleReq EXCEPT !.pc = "done", !.op = "create_gift_card command",
                                         !.ent = [NoEntry EXCEPT !.amount_won = amount],
                                         !.rid = rid,
                                         !.result = ClientOutcome(table, rid, fault)]]
  /\ UNCHANGED <<settings, schools, typed, serial, now, contests, students, entries, links, mail, shown>>

NextSettings ==
  \/ \E r \in Reqs, amount \in Amounts, fault \in Faults :
       CreateGiftCardCommand(r, amount, fault)
  \/ \E r \in Reqs, e \in entries, fault \in Faults : OpsCreateGiftCard(r, e, fault)

SpecSettings == InitSettings /\ [][NextSettings]_vars

\* ---------------------------------------------------------------------------
\* The check page alone: every entry is made by finish_check, for a contest
\* of either school with any window.
\* ---------------------------------------------------------------------------
WindowContests ==
  {c \in [school : Schools, kind : Kinds, in_n : 1 .. MaxInN, amount : {0, Prize},
          start_at : Times, end_at : Times] :
     /\ c.start_at < c.end_at
     /\ c.kind # "dice_roll" => c.in_n = 1}

InitFinish ==
  /\ now = 0
  /\ contests \in [Contests -> WindowContests]
  /\ entries = {}
  /\ links = {}
  /\ nextToken = 1
  /\ students = [s \in Students |->
                   [school |-> SchoolOf(s), email |-> FirstEmail(s),
                    other_emails |-> {}, email_validated_at |-> Null]]
  /\ cards = {}
  /\ vendorLog = {}
  /\ mail = {}
  /\ shown = {}
  /\ req = [r \in Reqs |-> IdleReq]
  /\ schools = [slug \in Schools |-> DefaultSchool(slug)]
  /\ typed = <<>>
  /\ settings = CompleteSettings
  /\ serial = FALSE

NextFinish ==
  \/ Tick
  \/ \E r \in Reqs, s \in Students :
       \E email \in AddressesOf(s) : FinishCheck(r, SchoolOf(s), s, email)
  \/ \E r \in Reqs : CreateContestEntry(r)

SpecFinish == InitFinish /\ [][NextFinish]_vars

\* ---------------------------------------------------------------------------
\* Contest queries: the manager's querysets, the home page's lookups and the
\* admin list filter, over several contests of the two schools.
\* ---------------------------------------------------------------------------
ListedContests == 1 .. MaxContests

FilterValues == {"ongoing", "upcoming", "past", "none"}

\* A read-only query; its arguments and its result are kept in one slot.
QueryResult(op, slug, when, result) ==
  /\ req' = [req EXCEPT ![Session] =
               [IdleReq EXCEPT !.pc = "done", !.op = op, !.slug = slug,
                               !.when = when, !.result = result]]
  /\ UNCHANGED <<settings, schools, typed, serial, now, contests, students, entries, links, cards, vendorLog,
                 mail, shown, nextToken>>

InitQueries ==
  /\ now = 0
  /\ contests \in [ListedContests ->
                     {c \in WindowContests : c.kind = "giveaway" /\ c.amount = Prize}]
  /\ entries = {}
  /\ links = {}
  /\ nextToken = 1
  /\ students = [s \in Students |->
                   [school |-> SchoolOf(s), email |-> FirstEmail(s),
                    other_emails |-> {}, email_validated_at |-> Null]]
  /\ cards = {}
  /\ vendorLog = {}
  /\ mail = {}
  /\ shown = {}
  /\ req = [r \in Reqs |-> IdleReq]
  /\ schools = [slug \in Schools |-> DefaultSchool(slug)]
  /\ typed = <<>>
  /\ settings = CompleteSettings
  /\ serial = FALSE

\* school.contests.upcoming(when), .ongoing(when), .past(when)
Upcoming(slug, when) == QueryResult("upcoming", slug, when, upcoming(slug, when))

Ongoing(slug, when) == QueryResult("ongoing", slug, when, ongoing(slug, when))

Past(slug, when) == QueryResult("past", slug, when, past(slug, when))

\* school.contests.current(when); 0 stands for None.
Current(slug, when) == QueryResult("current", slug, when, current(slug, when))

\* school.contests.most_recent_past(when); 0 stands for None.
MostRecentPast(slug, when) ==
  IF most_recent_past(slug, when) = {}
    THEN QueryResult("most_recent_past", slug, when, 0)
    ELSE \E c \in most_recent_past(slug, when) :
           QueryResult("most_recent_past", slug, when, c)

\* The admin list of contests filtered by status, at the time of the request.
StatusListFilterQueryset(value) ==
  QueryResult("filter", value, now, StatusListFilter(value, now))

NextQueries ==
  \/ Tick
  \/ \E slug \in Schools, when \in Times : Upcoming(slug, when)
  \/ \E slug \in Schools, when \in Times : Ongoing(slug, when)
  \/ \E slug \in Schools, when \in Times : Past(slug, when)
  \/ \E slug \in Schools, when \in Times : Current(slug, when)
  \/ \E slug \in Schools, when \in Times : MostRecentPast(slug, when)
  \/ \E value \in FilterValues : StatusListFilterQueryset(value)

SpecQueries == InitQueries /\ [][NextQueries]_vars

\* ---------------------------------------------------------------------------
\* Migration 0011: the column `kind` is added with the default 'giveaway' and
\* data_migrate_kind then fixes the historical rows.
\* ---------------------------------------------------------------------------
HistoricalContests ==
  [school : Schools, kind : Kinds, in_n : 1 .. MaxInN, amount : {Prize},
   start_at : {StartAt}, end_at : {EndAt}]

\* Variant: every giveaway is turned into a dice roll.
data_migrate_kind_every_giveaway(contest) ==
  IF contest.kind = "giveaway"
    THEN [contest EXCEPT !.kind = "dice_roll"]
    ELSE contest

\* The body of the loop of data_migrate_kind for one contest row.
data_migrate_kind(contest) ==
  IF contest.kind = "giveaway" /\ contest.in_n > 1
    THEN [contest EXCEPT !.kind = "dice_roll"]
    ELSE contest

InitMigration ==
  /\ now = 0
  /\ contests \in [ListedContests -> HistoricalContests]
  /\ entries = {}
  /\ links = {}
  /\ nextToken = 1
  /\ students = [s \in Students |->
                   [school |-> SchoolOf(s), email |-> FirstEmail(s),
                    other_emails |-> {}, email_validated_at |-> Null]]
  /\ cards = {}
  /\ vendorLog = {}
  /\ mail = {}
  /\ shown = {}
  /\ req = [r \in Reqs |-> IdleReq]
  /\ schools = [slug \in Schools |-> DefaultSchool(slug)]
  /\ typed = <<>>
  /\ settings = CompleteSettings
  /\ serial = FALSE

\* RunPython(data_migrate_kind): the loop over Contest.objects.all(); the
\* rows it saved are kept in the result.
DataMigrateKind ==
  /\ req[Session].pc = "idle"
  /\ contests' = [c \in DOMAIN contests |-> data_migrate_kind(contests[c])]
  /\ req' = [req EXCEPT ![Session] =
               [IdleReq EXCEPT !.pc = "done", !.op = "data_migrate_kind",
                               !.result = {c \in DOMAIN contests :
                                             data_migrate_kind(contests[c]) # contests[c]}]]
  /\ UNCHANGED <<settings, schools, typed, serial, now, students, entries, links, cards, vendorLog,
                 mail, shown, nextToken>>

NextMigration == DataMigrateKind

SpecMigration == InitMigration /\ [][NextMigration]_vars

\* ---------------------------------------------------------------------------
\* Properties
\* ---------------------------------------------------------------------------

\* The request in slot r is a returned enter_contest call for an eligible
\* pair made at an instant at which the contest was ongoing.
EligibleOngoingEnter(r) ==
  /\ req[r].op = "enter"
  /\ req[r].pc = "done"
  /\ req[r].contest # 0
  /\ students[req[r].student].school = contests[req[r].contest].school
  /\ is_ongoing(contests[req[r].contest], req[r].when)

\* C1: for an eligible pair with the contest ongoing, enter_contest calls run
\* concurrently leave exactly one ContestEntry row for the pair and every
\* call returns that row.
C1_EntryUniqueness ==
  \A r \in Reqs :
    EligibleOngoingEnter(r) =>
      /\ Cardinality(EntriesOf(req[r].student, req[r].contest)) = 1
      /\ req[r].result = "ok"
      /\ \E e \in EntriesOf(req[r].student, req[r].contest) : e.id = req[r].ent.id

\* C2: the enter_contest call that loses the race on the unique constraint
\* surfaces no error to its caller.
C2_LoserSeesNoError ==
  \A r \in Reqs : req[r].op = "enter" => req[r].result # "integrity_error"

\* Slot r starts an enter_contest call in this step.
StartsEnter(r) ==
  /\ req[r].pc = "idle"
  /\ req'[r].op = "enter"
  /\ req'[r].contest # 0

\* C3: once an entry exists for (student, contest), a later enter_contest
\* call for the pair, whatever its `when`, returns that entry with
\* isNewlyCreated = false; no draw is made and no row is created or modified.
C3_EnterIdempotent ==
  [][\A r \in Reqs :
       (StartsEnter(r) /\ EntriesOf(req'[r].student, req'[r].contest) # {}) =>
         /\ req'[r].pc = "done"
         /\ req'[r].result = "ok"
         /\ req'[r].created = FALSE
         /\ req'[r].ent \in EntriesOf(req'[r].student, req'[r].contest)
         /\ entries' = entries
         /\ cards' = cards]_vars

\* An existing entry was returned by a call made when the contest was not ongoing.
C3_Witness ==
  \E r \in Reqs :
    /\ req[r].op = "enter"
    /\ req[r].pc = "done"
    /\ req[r].result = "ok"
    /\ req[r].created = FALSE
    /\ req[r].ent \in entries
    /\ ~is_ongoing(contests[req[r].contest], req[r].when)

\* C4: two get_or_issue_prize calls running concurrently on the same
\* winning, not yet issued entry do not both mint a gift card.
C4_NoDoubleMint ==
  \A r1, r2 \in Reqs :
    (/\ req[r1].rid # NoRid
     /\ req[r2].rid # NoRid
     /\ req[r1].ent.id = req[r2].ent.id) => req[r1].rid = req[r2].rid

\* The gift cards funded at the vendor on behalf of an entry.
CardsFor(table, id) == {k \in table : k.entry = id}

\* The claim codes rendered for an entry.
ShownFor(id) == {x[2] : x \in {y \in shown : y[1] = id}}

\* C5: sequential get_or_issue_prize calls on the same winning entry return
\* the same claim code; once a claim code has been returned no further card
\* is minted, and the vendor is contacted only with the persisted request id.
C5_MintIdempotence ==
  [][/\ \A x, y \in shown' : x[1] = y[1] => x[2] = y[2]
     /\ \A e \in entries :
          ShownFor(e.id) # {} =>
            /\ e.creation_request_id # NoRid
            /\ CardsFor(cards', e.id) = CardsFor(cards, e.id)
            /\ \A v \in vendorLog' \ vendorLog :
                 v.entry = e.id => v.rid = e.creation_request_id]_vars

\* A second visit returned the claim code of an entry whose first visit minted
\* the card and sent the email.
C5_Witness ==
  \E r \in Reqs :
    /\ req[r].op = "validate"
    /\ req[r].pc = "done"
    /\ req[r].result = "ok"
    /\ req[r].rid = NoRid
    /\ req[r].code \in ShownFor(req[r].ent.id)
    /\ \E m \in mail : m.entry = req[r].ent.id /\ m.code = req[r].code

\* C6: every CreateGiftCard request sent on behalf of one entry carries the
\* same request id.
C6_StableRequestId ==
  \A x, y \in vendorLog : x.entry = y.entry => x.rid = y.rid

\* The entry of the link a validate_email request works on, as stored.
LinkedEntry(r) == EntryById(LinkByToken(req[r].token).contest_entry)

\* C7: a vendor failure during minting leaves the entry unissued and renders
\* no claim code, and a later get_or_issue_prize on the entry mints again.
C7_FailedMintRetryable ==
  [][\A r \in Reqs :
       /\ (req[r].pc = "mint" /\ req'[r].pc = "done") =>
            /\ req'[r].result = "error"
            /\ req'[r].code = 0
            /\ entries' = entries
            /\ shown' = shown
            /\ mail' = mail
       /\ (/\ req[r].pc = "mark"
           /\ req'[r].pc # "mark"
           /\ LinkByToken(req[r].token).contest_entry # 0
           /\ LinkedEntry(r).roll = 0
           /\ LinkedEntry(r).creation_request_id = NoRid) => req'[r].pc = "mint"]_vars

\* A request is minting for an entry for which an earlier CreateGiftCard
\* failed before the vendor funded a card.
C7_Witness ==
  \E r \in Reqs :
    /\ req[r].pc = "mint"
    /\ \E v \in vendorLog :
         /\ v.entry = req[r].ent.id
         /\ v.api = "create"
         /\ CardsOf(v.rid) = {}
    /\ \E e \in entries : e.id = req[r].ent.id /\ e.creation_request_id = NoRid

\* C8: creation_request_id, once non-empty, is never overwritten or cleared.
C8_OneWayLatch ==
  [][\A e \in entries :
       has_issued(e) =>
         \E f \in entries' :
           f.id = e.id /\ f.creation_request_id = e.creation_request_id]_vars

Validated(s) == students[s].email_validated_at # Null

\* C9: no gift card is requested or minted and no claim code is rendered or
\* emailed for an entry whose student is not validated; get_or_issue_prize
\* runs only after a link of the student has been consumed.
C9_ValidationGate ==
  /\ \A k \in cards : Validated(EntryById(k.entry).student)
  /\ \A v \in vendorLog : Validated(EntryById(v.entry).student)
  /\ \A x \in shown : Validated(EntryById(x[1]).student)
  /\ \A m \in mail : Validated(EntryById(m.entry).student)
  /\ \A r \in Reqs :
       req[r].pc \in {"check", "mint", "save", "email"} =>
         /\ Validated(req[r].student)
         /\ req[r].ent.student = req[r].student
         /\ \E l \in links : l.student = req[r].student /\ l.consumed_at # Null

\* A card has been minted and its claim code rendered and emailed.
C9_Witness ==
  \E k \in cards :
    /\ <<k.entry, k.code>> \in shown
    /\ \E m \in mail : m.entry = k.entry /\ m.sent

\* C10: get_or_issue_prize on an issued entry sends the vendor exactly the
\* persisted request id with the amount of the mint, draws no new request
\* id, mints nothing and leaves the entry unchanged.
C10_RecheckUsesPersistedId ==
  [][\A r \in Reqs :
       (req[r].pc = "check" /\ req'[r].pc = "done") =>
         LET e == req[r].ent
             sent == [entry |-> e.id, rid |-> e.creation_request_id,
                      amount |-> e.amount_won, api |-> "check"]
         IN
         /\ e.creation_request_id # NoRid
         /\ sent \in vendorLog'
         /\ vendorLog' \ vendorLog \subseteq {sent}
         /\ \E k \in cards :
              k.rid = e.creation_request_id /\ k.entry = e.id /\ k.amount = e.amount_won
         /\ cards' = cards
         /\ nextToken' = nextToken
         /\ entries' = entries]_vars

\* A visit of an issued entry returned its claim code from the vendor.
C10_Witness ==
  \E r \in Reqs :
    /\ req[r].op = "validate"
    /\ req[r].pc = "done"
    /\ req[r].result = "ok"
    /\ req[r].ent.creation_request_id # NoRid
    /\ req[r].rid = NoRid
    /\ [entry |-> req[r].ent.id, rid |-> req[r].ent.creation_request_id,
        amount |-> req[r].ent.amount_won, api |-> "check"] \in vendorLog

\* Slot r starts a direct get_or_issue_prize call in this step.
StartsPrize(r) ==
  /\ req[r].pc = "idle"
  /\ req'[r].op = "prize"

\* C11: get_or_issue_prize on a non-winning entry returns (entry, None) at
\* once: no vendor call is made, no card is funded, no email is sent, nothing
\* is stored, and the creation_request_id of a non-winning entry stays empty.
C11_NonWinnerNoEffect ==
  [][/\ \A r \in Reqs :
          (StartsPrize(r) /\ req'[r].ent.roll # 0) =>
            /\ req'[r].pc = "done"
            /\ req'[r].result = "none"
            /\ req'[r].code = 0
            /\ req'[r].ent \in entries'
            /\ vendorLog' = vendorLog
            /\ cards' = cards
            /\ mail' = mail
            /\ shown' = shown
            /\ entries' = entries
     /\ \A e \in entries' : e.roll # 0 => e.creation_request_id = NoRid
     /\ \A v \in vendorLog' : \A e \in entries' : e.id = v.entry => e.roll = 0]_vars

\* get_or_issue_prize has returned (entry, None) for a stored losing entry.
C11_Witness ==
  \E r \in Reqs :
    /\ req[r].op = "prize"
    /\ req[r].pc = "done"
    /\ req[r].result = "none"
    /\ req[r].ent \in entries
    /\ req[r].ent.roll # 0

\* Slot r starts, in this step, an enter_contest call of a student of the
\* contest's school who has no entry in the contest.
StartsFirstEnter(r) ==
  /\ StartsEnter(r)
  /\ students[req'[r].student].school = contests[req'[r].contest].school
  /\ EntriesOf(req'[r].student, req'[r].contest) = {}

\* C12: enter_contest for a pair without entry at a time when >= end_at
\* records a new losing entry (roll = 1, amount_won = 0) and returns it with
\* isNewlyCreated = true.
C12_LateEntryLoses ==
  [][\A r \in Reqs :
       (StartsFirstEnter(r) /\ req'[r].when >= contests[req'[r].contest].end_at) =>
         /\ req'[r].pc = "done"
         /\ req'[r].result = "ok"
         /\ req'[r].created = TRUE
         /\ req'[r].ent.roll = 1
         /\ req'[r].ent.amount_won = 0
         /\ req'[r].ent \in entries']_vars

\* C13: enter_contest for a pair without entry at a time when < start_at is
\* rejected with a precondition error and persists no ContestEntry.
C13_UpcomingRejected ==
  [][\A r \in Reqs :
       (/\ StartsEnter(r)
        /\ EntriesOf(req'[r].student, req'[r].contest) = {}
        /\ req'[r].when < contests[req'[r].contest].start_at) =>
         /\ req'[r].pc = "done"
         /\ req'[r].result = "precondition"
         /\ req'[r].ent = NoEntry
         /\ entries' = entries
         /\ links' = links]_vars

\* An eligible student's enter_contest call made before start_at was rejected
\* and the pair still has no entry.
C13_Witness ==
  \E r \in Reqs :
    /\ req[r].op = "enter"
    /\ req[r].pc = "done"
    /\ req[r].contest # 0
    /\ req[r].result = "precondition"
    /\ students[req[r].student].school = contests[req[r].contest].school
    /\ req[r].when < contests[req[r].contest].start_at
    /\ EntriesOf(req[r].student, req[r].contest) = {}

\* C14: enter_contest with student.school # contest.school fails with the
\* precondition error; no ContestEntry is created, returned or modified and
\* nothing else is stored.
C14_SchoolMismatchRejected ==
  [][\A r \in Reqs :
       (/\ StartsEnter(r)
        /\ students[req'[r].student].school # contests[req'[r].contest].school) =>
         /\ req'[r].pc = "done"
         /\ req'[r].result = "precondition"
         /\ req'[r].ent = NoEntry
         /\ req'[r].created = FALSE
         /\ entries' = entries
         /\ links' = links
         /\ students' = students
         /\ cards' = cards]_vars

\* A student of another school was refused while the contest was ongoing.
C14_Witness ==
  \E r \in Reqs :
    /\ req[r].op = "enter"
    /\ req[r].pc = "done"
    /\ req[r].contest # 0
    /\ req[r].result = "precondition"
    /\ students[req[r].student].school # contests[req[r].contest].school
    /\ is_ongoing(contests[req[r].contest], req[r].when)
    /\ EntriesOf(req[r].student, req[r].contest) = {}

\* C15: every entry newly created by enter_contest in a GIVEAWAY contest is
\* stored with roll = 0 and amount_won = contest.amount.
C15_GiveawayAlwaysWins ==
  [][\A e \in entries' :
       (/\ \A x \in entries : x.id # e.id
        /\ contests[e.contest].kind = "giveaway") =>
         /\ e.roll = 0
         /\ e.amount_won = contests[e.contest].amount
         /\ (<<e.roll, e.amount_won>>) \in roll_die_and_get_winnings(contests[e.contest])
         /\ \E r \in Reqs :
              /\ req[r].pc = "create"
              /\ is_ongoing(contests[e.contest], req[r].when)
              /\ req'[r].ent = e]_vars

\* An enter_contest call created an entry in a giveaway with a monetary
\* prize and returned it.
C15_Witness ==
  \E r \in Reqs :
    /\ req[r].op = "enter"
    /\ req[r].pc = "done"
    /\ req[r].created = TRUE
    /\ req[r].ent \in entries
    /\ contests[req[r].contest].kind = "giveaway"
    /\ contests[req[r].contest].amount = Prize
    /\ req[r].ent.amount_won = Prize

\* C16: for a NO_PRIZE or SINGLE_WINNER contest roll_die_and_get_winnings
\* returns (1, 0) whatever amount and in_n: the draw is not a winner.
C16_NoImmediateWinner ==
  \A r \in Reqs :
    (/\ req[r].op = "roll"
     /\ contests[req[r].contest].kind \in {"no_prize", "single_winner"}) =>
      /\ req[r].ent.roll = 1
      /\ req[r].ent.amount_won = 0

\* A single-winner contest with in_n > 1 and a monetary amount was drawn.
C16_Witness ==
  \E r \in Reqs :
    /\ req[r].op = "roll"
    /\ contests[req[r].contest].kind = "single_winner"
    /\ contests[req[r].contest].in_n > 1
    /\ contests[req[r].contest].amount > 0
    /\ req[r].ent.roll = 1

\* C17: for a DICE_ROLL contest roll_die_and_get_winnings returns (r, a) with
\* 0 <= r < in_n and a = amount if r = 0, else a = 0; with in_n = 1 it is
\* always the win (0, amount).
C17_DiceRoll ==
  \A r \in Reqs :
    (/\ req[r].op = "roll"
     /\ contests[req[r].contest].kind = "dice_roll") =>
      LET c == contests[req[r].contest]
          e == req[r].ent
      IN
      /\ 0 <= e.roll
      /\ e.roll < c.in_n
      /\ e.amount_won = IF e.roll = 0 THEN c.amount ELSE 0
      /\ c.in_n = 1 => (e.roll = 0 /\ e.amount_won = c.amount)

\* A dice roll contest with a monetary amount was drawn and the die showed
\* its largest face, a loss.
C17_Witness ==
  \E r \in Reqs :
    /\ req[r].op = "roll"
    /\ contests[req[r].contest].kind = "dice_roll"
    /\ contests[req[r].contest].amount > 0
    /\ contests[req[r].contest].in_n = MaxInN
    /\ req[r].ent.roll = MaxInN - 1
    /\ req[r].ent.amount_won = 0

\* C18: at every instant the status of a contest is exactly one of Upcoming
\* (when < start_at), Ongoing (start_at <= when < end_at) and Past
\* (when >= end_at), and the admin status is that one.
C18_StatusPartition ==
  \A r \in Reqs :
    (req[r].op = "status" /\ req[r].pc = "done") =>
      LET c == contests[req[r].contest]
          w == req[r].when
      IN
      /\ req[r].result \in {"Upcoming", "Ongoing", "Past"}
      /\ req[r].result = "Upcoming" <=> w < c.start_at
      /\ req[r].result = "Ongoing" <=> (c.start_at <= w /\ w < c.end_at)
      /\ req[r].result = "Past" <=> w >= c.end_at

\* C19: as the clock advances a contest that is ongoing is never upcoming
\* again, and a contest that is past is never ongoing or upcoming again.
C19_StatusForward ==
  [][\A c \in Contests :
       /\ is_ongoing(contests[c], now) =>
            /\ ~is_upcoming(contests[c], now')
            /\ is_ongoing(contests[c], now') \/ is_past(contests[c], now')
       /\ is_past(contests[c], now) =>
            /\ is_past(contests[c], now')
            /\ ~is_ongoing(contests[c], now')
            /\ ~is_upcoming(contests[c], now')]_vars

\* A contest seen ongoing by the admin page is past now.
C19_Witness ==
  \E r \in Reqs :
    /\ req[r].op = "status"
    /\ req[r].result = "Ongoing"
    /\ is_past(contests[req[r].contest], now)
    /\ ~is_upcoming(contests[req[r].contest], now)

\* C20: consumed_at of a link keeps the time of the first consumption: a
\* later visit of the link does not change it.
C20_ConsumedAtFirst ==
  [][\A l \in links :
       l.consumed_at # Null =>
         \E m \in links' : m.token = l.token /\ m.consumed_at = l.consumed_at]_vars

C22_SlugMismatchDenied ==
  [][\A r \in Reqs :
       (/\ req[r].pc = "idle"
        /\ req'[r].op = "validate"
        /\ req'[r].slug # students[req'[r].student].school) =>
         /\ req'[r].pc = "done"
         /\ req'[r].result = "denied"
         /\ req'[r].code = 0
         /\ links' = links
         /\ students' = students
         /\ entries' = entries
         /\ vendorLog' = vendorLog
         /\ cards' = cards
         /\ mail' = mail
         /\ shown' = shown]_vars

\* A visit with the slug of another school was denied and the link of a
\* winning, unissued entry is still unconsumed.
C22_Witness ==
  \E r \in Reqs :
    /\ req[r].op = "validate"
    /\ req[r].pc = "done"
    /\ req[r].result = "denied"
    /\ req[r].slug # students[req[r].student].school
    /\ LinkByToken(req[r].token).consumed_at = Null
    /\ LinkedEntry(r).roll = 0
    /\ LinkedEntry(r).creation_request_id = NoRid

\* The gift card emails of an entry whose dispatch failed.
FailedMail(id) == {m \in mail : m.entry = id /\ ~m.sent}

\* C23: when the dispatch of the gift card email fails after a successful
\* mint, the request still returns the claim code and the stored
\* creation_request_id stays; a later visit of the link takes the re-fetch
\* path, mints nothing and returns the same claim code.
C23_EmailFailureNonFatal ==
  [][\A r \in Reqs :
       /\ (req[r].pc = "email" /\ req'[r].pc = "done") =>
            /\ req'[r].result = "ok"
            /\ req'[r].code = req[r].code
            /\ <<req[r].ent.id, req[r].code>> \in shown'
            /\ entries' = entries
            /\ cards' = cards
            /\ \E e \in entries' :
                 e.id = req[r].ent.id /\ e.creation_request_id = req[r].rid
       /\ (/\ req[r].pc = "mark"
           /\ req'[r].pc # "mark"
           /\ LinkByToken(req[r].token).contest_entry # 0
           /\ FailedMail(LinkByToken(req[r].token).contest_entry) # {}) =>
            req'[r].pc = "check"
       /\ (/\ req[r].pc = "check"
           /\ req'[r].pc = "done"
           /\ req'[r].result = "ok"
           /\ FailedMail(req[r].ent.id) # {}) =>
            /\ req'[r].code \in {m.code : m \in FailedMail(req[r].ent.id)}
            /\ cards' = cards
            /\ entries' = entries]_vars

\* A later visit returned the claim code of a card whose email had failed.
C23_Witness ==
  \E r \in Reqs :
    /\ req[r].op = "validate"
    /\ req[r].pc = "done"
    /\ req[r].result = "ok"
    /\ req[r].rid = NoRid
    /\ \E m \in FailedMail(req[r].ent.id) : m.code = req[r].code
    /\ \A m \in mail : m.entry = req[r].ent.id => ~m.sent

\* C24: every validation link points at an entry that is a winner and
\* belongs to the link's student; a step that creates no winning entry and
\* finds none creates no link.
C24_LinksWinnerGated ==
  [][/\ \A l \in links' :
          /\ l.contest_entry # 0
          /\ \E e \in entries' :
               e.id = l.contest_entry /\ e.roll = 0 /\ e.student = l.student
     /\ \A r \in Reqs :
          (/\ req[r].pc \in {"idle", "create"}
           /\ req'[r].pc = "done"
           /\ req'[r].op = "enter"
           /\ req'[r].ent.roll # 0) => links' = links]_vars

\* A request created a winning entry and a link to it was sent.
C24_Witness ==
  \E r \in Reqs, l \in links :
    /\ req[r].op = "enter"
    /\ req[r].pc = "done"
    /\ req[r].created = TRUE
    /\ req[r].ent.roll = 0
    /\ l.contest_entry = req[r].ent.id
    /\ l.student = req[r].student

\* Slot r goes from a returned normalization to the normalization of what it
\* returned.
NormalizedAgain(r) ==
  /\ req[r].pc = "done"
  /\ req[r].op \in {"School.normalize_email", "normalize_email"}
  /\ req'[r].pc = "done"
  /\ req'[r].op = req[r].op
  /\ req'[r].email = req[r].result

\* C26 as stated: for every address containing an at-sign and every policy,
\* normalizing the result of a normalization returns it unchanged.
C26_IdempotentEveryAddress ==
  [][\A r \in Reqs : NormalizedAgain(r) => req'[r].result = req[r].result]_vars

\* C26, amended: for every address with an at-sign, made of ASCII characters
\* and free of whitespace, and every policy, normalizing the result of a
\* normalization returns it unchanged.
C26_IdempotentCleanAddress ==
  [][\A r \in Reqs :
       CleanAddress(typed) /\ NormalizedAgain(r) => req'[r].result = req[r].result]_vars

\* A clean address with a tag or dots at an alias domain was normalized and
\* the result normalized again to itself.
C26_Witness ==
  \E r \in Reqs :
    /\ req[r].pc = "done"
    /\ req[r].op = "School.normalize_email"
    /\ CleanAddress(typed)
    /\ req[r].email # typed
    /\ req[r].email = school_normalize_email(schools[TheSchool], typed)
    /\ req[r].result = req[r].email
    /\ Len(req[r].email) < Len(typed)
    /\ domain_part(typed) = <<"b">>
    /\ domain_part(req[r].email) = <<"a">>

\* The domain typed after the first at-sign, trimmed, in lower case and
\* without its non-ASCII characters.
TypedDomain(a) == ascii(domain_part(lower(strip(a))))

\* C28: is_valid_email is true exactly when the domain of the normalized
\* address is the primary domain: true at the primary domain and at a listed
\* alias, false at a domain that is neither a listed domain nor below one;
\* validate_email raises ValidationError exactly when is_valid_email is false.
C28_ValidForSchool ==
  \A r \in Reqs :
    LET row == schools[TheSchool]
        listed == {row.mail_domains[i] : i \in 1 .. Len(row.mail_domains)}
        atPrimary == domain_part(school_normalize_email(row, req[r].email))
                       = row.mail_domains[1]
    IN /\ req[r].pc = "done" /\ req[r].op = "is_valid_email" =>
            /\ req[r].result = atPrimary
            /\ domain_part(lower(strip(req[r].email))) \in listed
                 => req[r].result = TRUE
            /\ (\A d \in listed : ~subdomain_of(TypedDomain(req[r].email), d))
                 => req[r].result = FALSE
       /\ req[r].pc = "done" /\ req[r].op = "validate_email" =>
            /\ req[r].result \in {"ok", "ValidationError"}
            /\ req[r].result = "ValidationError" <=> ~atPrimary

\* An address at the alias domain, with a dot in its local part, was found
\* valid.
C28_Witness ==
  \E r \in Reqs :
    /\ req[r].pc = "done" /\ req[r].op = "is_valid_email"
    /\ req[r].result = TRUE
    /\ domain_part(req[r].email) = <<"b">>
    /\ find(local_part(req[r].email), ".") # 0

\* C27: hash_email gives the hash of the plain address to every way of
\* writing it that differs by letter case, surrounding whitespace, a tag
\* suffix, dots in the local part or the alias domain.
C27_DedupHash ==
  \A r \in Reqs :
    req[r].pc = "done" /\ req[r].op = "hash_email" =>
      req[r].result = <<"sha256", BaseAddress>>

\* The address in upper case was hashed, and so was the one with a dot and a
\* tag at the alias domain.
C27_Witness ==
  \E r, q \in Reqs :
    /\ req[r].pc = "done" /\ req[r].op = "hash_email"
    /\ req[r].email = <<"a", ".", "b", "+", "@", "b">>
    /\ req[q].pc = "done" /\ req[q].op = "hash_email"
    /\ req[q].email = <<"A", "b", "@", "A">>
    /\ req[r].result = req[q].result

\* The rows of the school with the hash.
RowsFor(table, school, hash) ==
  {pk \in DOMAIN table : table[pk].school = school /\ table[pk].hash = hash}

\* C25: there is at most one Student per (school, hash); rows keep their
\* first-seen email and name; a call whose (school, hash) exists when it
\* finishes returns that Student and creates no row; two calls of one school
\* whose addresses normalize alike return the same Student.
C25_OneStudentPerHash ==
  [][/\ \A pk \in DOMAIN students : pk \in DOMAIN students' /\ students'[pk] = students[pk]
     /\ \A p, q \in DOMAIN students' :
          students'[p].school = students'[q].school /\ students'[p].hash = students'[q].hash
            => p = q
     /\ \A r \in Reqs :
          /\ req'[r].op = "get_or_create_student"
          /\ req'[r].pc = "done"
          /\ req[r].pc # "done"
          /\ RowsFor(students, req'[r].slug, <<"sha256",
                       school_normalize_email(schools[req'[r].slug], req'[r].email)>>) # {}
          => /\ students' = students
             /\ req'[r].result \in
                  {<<"Student", pk>> : pk \in RowsFor(students, req'[r].slug, req'[r].stu.hash)}
             /\ req'[r].created = FALSE
     /\ \A r, q \in Reqs :
          /\ req'[r].op = "get_or_create_student" /\ req'[r].pc = "done"
          /\ req'[q].op = "get_or_create_student" /\ req'[q].pc = "done"
          /\ req'[r].slug = req'[q].slug
          /\ school_normalize_email(schools[req'[r].slug], req'[r].email)
               = school_normalize_email(schools[req'[q].slug], req'[q].email)
          => /\ req'[r].result = req'[q].result
             /\ req'[r].result[1] = "Student"
    ]_vars

\* Two different addresses of one school that normalize alike were posted
\* with different names; the second call returned the Student of the first,
\* whose email and name are those of the first call.
C25_Witness ==
  \E r, q \in Reqs :
    /\ req[r].op = "get_or_create_student" /\ req[r].pc = "done" /\ req[r].created
    /\ req[q].op = "get_or_create_student" /\ req[q].pc = "done" /\ ~req[q].created
    /\ req[r].slug = req[q].slug
    /\ req[r].email # req[q].email
    /\ req[r].stu.first_name # req[q].stu.first_name
    /\ req[q].result = req[r].result
    /\ Len(students) = 1
    /\ students[1].email = req[r].email
    /\ students[1].first_name = req[r].stu.first_name

\* The POSTs that carry the request id of slot r.
PostsOf(r) == {p \in vendorLog : p.body.creationRequestId = req[r].rid}

\* C29: create_gift_card(amount) without a request id sends exactly one POST
\* to CreateGiftCard whose body carries a creationRequestId made of the
\* partner id and a token, the partnerId and value.amount = amount, and it
\* returns the parsed response of the vendor.
C29_CreateGiftCardRequest ==
  /\ Cardinality(vendorLog) = Cardinality({r \in Reqs : req[r].pc = "done"})
  /\ \A r \in Reqs :
       req[r].pc = "done" /\ req[r].op = "create_gift_card" =>
         /\ Cardinality(PostsOf(r)) = 1
         /\ \A p \in PostsOf(r) :
              /\ p.method = "POST"
              /\ p.url = <<"https", EndpointHost, "CreateGiftCard">>
              /\ Len(p.body.creationRequestId) = 2
              /\ p.body.creationRequestId[1] = PartnerId
              /\ p.body.creationRequestId[2] \in 1 .. (nextToken - 1)
              /\ p.body.partnerId = PartnerId
              /\ p.body.value.amount = req[r].ent.amount_won
              /\ p.fault = "none" =>
                   /\ req[r].result.raised = "none"
                   /\ req[r].result.value.creation_request_id = req[r].rid
                   /\ req[r].result.value.amount = req[r].ent.amount_won
                   /\ req[r].result.value.status = "SUCCESS"
                   /\ \E k \in cards :
                        /\ k.rid = req[r].rid
                        /\ k.amount = req[r].ent.amount_won
                        /\ k.code = req[r].result.value.gc_claim_code

\* Two cards of different amounts were created by two calls, each with its
\* own request id.
C29_Witness ==
  \E r, q \in Reqs :
    /\ req[r].pc = "done" /\ req[r].op = "create_gift_card"
    /\ req[q].pc = "done" /\ req[q].op = "create_gift_card"
    /\ req[r].result.raised = "none" /\ req[q].result.raised = "none"
    /\ req[r].ent.amount_won = Prize /\ req[q].ent.amount_won = 2 * Prize
    /\ req[r].rid # req[q].rid
    /\ Cardinality(vendorLog) = 2
    /\ Cardinality(cards) = 2

\* The fault of the POST of slot r.
FaultOf(r) == (CHOOSE p \in PostsOf(r) : TRUE).fault

\* C30: a failed call tells its caller which kind of failure it was: what a
\* transport or vendor-side failure raises differs from what a malformed
\* response raises, for the caller of the adapter and for the caller of
\* get_or_issue_prize.
C30_FailuresClassified ==
  \A r, q \in Reqs :
    /\ req[r].pc = "done" /\ req[q].pc = "done"
    /\ req[r].op = req[q].op
    /\ req[r].op \in {"create_gift_card", "_create_gift_card"}
    /\ FaultOf(r) \in TransportFaults
    /\ FaultOf(q) \in MalformedFaults
    => /\ req[r].result.raised # "none"
       /\ req[q].result.raised # "none"
       /\ req[r].result.raised # req[q].result.raised

\* C31: when one of the five settings is absent, from_settings raises, no
\* client is built and nothing is sent to the vendor: the call ends with the
\* ValueError, without a request id, and the vendor has received and funded
\* nothing.
C31_FailFast ==
  (\E n \in SettingNames : settings[n] = "None") =>
    /\ vendorLog = {}
    /\ cards = {}
    /\ nextToken = 1
    /\ \A e \in entries : e.creation_request_id = NoRid
    /\ \A r \in Reqs :
         req[r].pc = "done" =>
           /\ req[r].result.raised = "ValueError: Missing AGCOD settings"
           /\ req[r].rid = NoRid

\* With only the partner id absent, the command and the prize flow were both
\* run and both ended with the ValueError.
C31_Witness ==
  /\ settings["AGCOD_PARTNER_ID"] = "None"
  /\ \A n \in SettingNames \ {"AGCOD_PARTNER_ID"} : settings[n] = "value"
  /\ \E r, q \in Reqs :
       /\ req[r].pc = "done" /\ req[r].op = "create_gift_card command"
       /\ req[q].pc = "done" /\ req[q].op = "_create_gift_card"
       /\ req[r].result.raised = "ValueError: Missing AGCOD settings"
       /\ req[q].result.raised = "ValueError: Missing AGCOD settings"

\* C32: every stored ContestEntry has roll = 0 exactly when amount_won > 0,
\* for contests of every kind and every amount >= 0.
C32_WinnerHasAmount ==
  [][\A e \in entries' :
       (\A x \in entries : x.id # e.id) => ((e.roll = 0) <=> (e.amount_won > 0))]_vars

\* C33: in every state, a link with consumed_at set belongs to a student
\* whose email_validated_at is set and whose emails (primary or other)
\* include the email of the link.
C33_ConsumedImpliesValidated ==
  \A l \in links :
    l.consumed_at # Null =>
      /\ students[l.student].email_validated_at # Null
      /\ l.email \in {students[l.student].email} \cup students[l.student].other_emails

\* C34: in every state, an entry with a creation_request_id is a winner with
\* amount_won > 0, and every card the vendor funded was asked for a winning
\* entry.
C34_IssuedImpliesWinner ==
  /\ \A e \in entries :
       e.creation_request_id # NoRid => e.roll = 0 /\ e.amount_won > 0
  /\ \A k \in cards : \E e \in entries : e.id = k.entry /\ e.roll = 0

\* The gift card emails handed to the mailer for an entry.
MailFor(id) == {m \in mail : m.entry = id}

\* C35: with visits run one after the other, the gift card email is
\* dispatched only by the call that minted the card, after the request id of
\* the mint has been saved on the entry, and never twice for one entry; a
\* visit of an issued entry dispatches none.
C35_EmailOnlyOnMint ==
  [][/\ \A r \in Reqs :
          req[r].pc = "email" /\ req'[r].pc # "email" =>
            /\ req[r].rid # NoRid
            /\ \E k \in cards : k.rid = req[r].rid /\ k.entry = req[r].ent.id
            /\ \E e \in entries :
                 e.id = req[r].ent.id /\ e.creation_request_id = req[r].rid
            /\ MailFor(req[r].ent.id) = {}
            /\ Cardinality(MailFor(req[r].ent.id)') = 1
     /\ mail' # mail => \E r \in Reqs : req[r].pc = "email" /\ req'[r].pc = "done"
     /\ \A r \in Reqs :
          req[r].pc = "check" /\ req'[r].pc # "check" => mail' = mail
    ]_vars

\* The first visit minted and dispatched the one email of the entry; a
\* second visit through the entry's other link returned the claim code
\* without an email.
C35_Witness ==
  \E r, q \in Reqs :
    /\ req[r].op = "validate" /\ req[r].pc = "done" /\ req[r].rid # NoRid
    /\ req[q].op = "validate" /\ req[q].pc = "done" /\ req[q].rid = NoRid
    /\ req[q].result = "ok"
    /\ req[q].token # req[r].token
    /\ req[q].ent.id = req[r].ent.id
    /\ Cardinality(MailFor(req[r].ent.id)) = 1

\* C36: finish_check resolves the school's current contest and enters the
\* student at one and the same instant: the enter_contest call it makes never
\* ends with a precondition error (school mismatch or contest not ongoing),
\* and every entry it creates is for a contest of the student's school whose
\* window holds the instant of the call.
C36_FinishCheckNoPrecondition ==
  /\ \A r \in Reqs :
       req[r].op = "enter" /\ req[r].pc = "done" =>
         req[r].result # "precondition"
  /\ \A r \in Reqs :
       req[r].op = "enter" /\ (req[r].pc = "create" \/ req[r].created) =>
         /\ contests[req[r].contest].school = students[req[r].student].school
         /\ contests[req[r].contest].start_at <= req[r].when
         /\ req[r].when < contests[req[r].contest].end_at

\* One student posted the form while the contest of the school was ongoing and
\* was entered; another posted it when no contest of the school was ongoing
\* and was told so.
C36_Witness ==
  \E r, q \in Reqs :
    /\ req[r].op = "enter" /\ req[r].pc = "done" /\ req[r].created
    /\ req[r].ent # NoEntry
    /\ req[q].op = "enter" /\ req[q].pc = "done" /\ req[q].result = "no_contest"

\* The addresses a student row knows: the primary and the others.
KnownEmails(stu) == {stu.email} \cup stu.other_emails

C38_QueriesAgreeWithPredicates ==
  \A r \in Reqs :
    req[r].pc = "done" =>
      LET w == req[r].when
          mine == {c \in DOMAIN contests : contests[c].school = req[r].slug}
          isUpcoming(c) == w < contests[c].start_at
          isOngoing(c) == contests[c].start_at <= w /\ w < contests[c].end_at
          isPast(c) == w >= contests[c].end_at
      IN
      /\ req[r].op = "upcoming" => req[r].result = {c \in mine : isUpcoming(c)}
      /\ req[r].op = "ongoing" => req[r].result = {c \in mine : isOngoing(c)}
      /\ req[r].op = "past" => req[r].result = {c \in mine : isPast(c)}
      /\ req[r].op = "filter" =>
           /\ req[r].slug = "upcoming" =>
                req[r].result = {c \in DOMAIN contests : isUpcoming(c)}
           /\ req[r].slug = "ongoing" =>
                req[r].result = {c \in DOMAIN contests : isOngoing(c)}
           /\ req[r].slug = "past" =>
                req[r].result = {c \in DOMAIN contests : isPast(c)}
      /\ req[r].op = "current" =>
           /\ req[r].result = 0 <=> {c \in mine : isOngoing(c)} = {}
           /\ req[r].result # 0 => req[r].result \in {c \in mine : isOngoing(c)}
      /\ req[r].op = "most_recent_past" =>
           /\ req[r].result = 0 <=> {c \in mine : isPast(c)} = {}
           /\ req[r].result # 0 =>
                /\ req[r].result \in {c \in mine : isPast(c)}
                /\ \A d \in {c \in mine : isPast(c)} :
                     contests[d].end_at <= contests[req[r].result].end_at

\* A school has two past contests and the lookup returned the one that ended
\* later.
C38_Witness ==
  \E r \in Reqs :
    /\ req[r].op = "most_recent_past" /\ req[r].pc = "done" /\ req[r].result # 0
    /\ \E d \in DOMAIN contests :
         /\ contests[d].school = req[r].slug
         /\ contests[d].end_at < contests[req[r].result].end_at

\* C39: after data_migrate_kind has run every contest satisfies
\* kind = giveaway => in_n = 1: each giveaway with in_n > 1 has become a dice
\* roll with its other fields unchanged, and the contests that already
\* satisfied it are left as they were.
C39_MigrationFixesKind ==
  [][req[Session].pc = "idle" /\ req'[Session].op = "data_migrate_kind" =>
       /\ DOMAIN contests' = DOMAIN contests
       /\ \A c \in DOMAIN contests :
            /\ contests'[c].kind = "giveaway" => contests'[c].in_n = 1
            /\ (contests[c].kind = "giveaway" => contests[c].in_n = 1) =>
                 contests'[c] = contests[c]
            /\ (contests[c].kind = "giveaway" /\ contests[c].in_n > 1) =>
                 contests'[c] = [contests[c] EXCEPT !.kind = "dice_roll"]]_vars

\* The migration turned one giveaway into a dice roll and left a giveaway
\* with in_n = 1 as it was.
C39_Witness ==
  /\ req[Session].op = "data_migrate_kind" /\ req[Session].pc = "done"
  /\ \E c, d \in DOMAIN contests :
       /\ c \in req[Session].result
       /\ contests[c].kind = "dice_roll" /\ contests[c].in_n > 1
       /\ d \notin req[Session].result
       /\ contests[d].kind = "giveaway" /\ contests[d].in_n = 1

====
